---- MODULE Spec2Model ----
(***************************************************************************)
(* A model of Trifling's local content-addressable store (web/js/db.js,    *)
(* concatenated into src/web/js/editor.js): the content store, the user    *)
(* and trifle pointer stores and the version log, with every asynchronous  *)
(* API function cut into one step per IndexedDB transaction, so that calls *)
(* issued by different event handlers interleave as they do in a browser.  *)
(***************************************************************************)
EXTENDS Integers, Sequences, FiniteSets, TLC

(***************************************************************************)
(* Bounds of the model.                                                    *)
(***************************************************************************)
\* Number of API calls started in one behaviour: of the pointer stores, of
\* the content store, of the version log, of computeHash; sync passes started.
MaxOps == 2
MaxContentOps == 3
MaxVersionOps == 3
MaxHashOps == 2
MaxSyncOps == 2
MaxMigrateOps == 3
MaxEdits == 2
MaxFileOps == 2
MaxRmwOps == 2
MaxSwEvents == 3
MaxImportOps == 4
MaxInputs == 3
MaxTurtleCalls == 3
MaxAvatarOps == 3
MaxRuns == 3
MaxWorkerMsgs == 5
MaxRunClicks == 3
\* Largest value Date.now() takes (time starts at 1).
MaxTime == 2

\* The concurrently running callers (event handlers awaiting the database).
Procs == {"h1", "h2"}

(***************************************************************************)
(* JSON values.  A JavaScript value is a tagged record: strings carry s,   *)
(* numbers n, booleans b, arrays items (a sequence), objects kv (a         *)
(* sequence of <<key, value>> pairs in insertion order, keys distinct).    *)
(***************************************************************************)
Null == [t |-> "null"]
Undef == [t |-> "undefined"]
Str(s) == [t |-> "str", s |-> s]
Num(n) == [t |-> "num", n |-> n]
Bool(b) == [t |-> "bool", b |-> b]
Arr(items) == [t |-> "arr", items |-> items]
Obj(kv) == [t |-> "obj", kv |-> kv]

\* UTF-16 code-unit order of the characters that occur in object keys.
CharOrder == "0123456789ABCDEFGHIJKLMNOPQRSTUVWXYZ_abcdefghijklmnopqrstuvwxyz"

CharRank(c) ==
    CHOOSE i \in 1..Len(CharOrder) : SubSeq(CharOrder, i, i) = c

\* a < b in the order Array.prototype.sort() uses without a comparator.
RECURSIVE StrLess(_, _)
StrLess(a, b) ==
    IF Len(b) = 0 THEN FALSE
    ELSE IF Len(a) = 0 THEN TRUE
    ELSE LET ca == SubSeq(a, 1, 1)
             cb == SubSeq(b, 1, 1)
         IN  IF ca = cb
             THEN StrLess(SubSeq(a, 2, Len(a)), SubSeq(b, 2, Len(b)))
             ELSE CharRank(ca) < CharRank(cb)

\* Object.keys(obj).sort(): the keys of kv in ascending order.
RECURSIVE SortKeys(_)
SortKeys(keys) ==
    IF keys = {} THEN <<>>
    ELSE LET least == CHOOSE k \in keys : \A o \in keys \ {k} : StrLess(k, o)
         IN  <<least>> \o SortKeys(keys \ {least})

\* obj[key]
Field(kv, key) ==
    LET i == CHOOSE j \in 1..Len(kv) : kv[j][1] = key
    IN  kv[i][2]

\* JSON.stringify of a string: quoted, with the quote and the backslash escaped.
RECURSIVE EscapeChars(_)
EscapeChars(s) ==
    IF Len(s) = 0 THEN ""
    ELSE LET c == SubSeq(s, 1, 1)
             e == IF c = "\"" THEN "\\\""
                  ELSE IF c = "\\" THEN "\\\\"
                  ELSE c
         IN  e \o EscapeChars(SubSeq(s, 2, Len(s)))

StringifyString(s) == "\"" \o EscapeChars(s) \o "\""

\* JSON.stringify of a natural number.
Digits == "0123456789"

RECURSIVE StringifyNat(_)
StringifyNat(n) ==
    IF n < 10 THEN SubSeq(Digits, n + 1, n + 1)
    ELSE StringifyNat(n \div 10) \o SubSeq(Digits, (n % 10) + 1, (n % 10) + 1)

\* The result of canonicalJSON: a string, or JavaScript's undefined.
Defined(s) == [def |-> TRUE, str |-> s]
Undefined == [def |-> FALSE, str |-> ""]

\* Array.prototype.join(','): an undefined element is joined as the empty string.
RECURSIVE Join(_)
Join(parts) ==
    IF Len(parts) = 0 THEN ""
    ELSE IF Len(parts) = 1 THEN parts[1].str
    ELSE parts[1].str \o "," \o Join(Tail(parts))

\* .filter(pair => pair !== undefined)
DefinedOnly_KeepAll(parts) == parts

DefinedOnly(parts) == SelectSeq(parts, LAMBDA r : r.def)

RECURSIVE canonicalJSON(_)
canonicalJSON(obj) ==
    CASE obj.t = "null" -> Defined("null")
      [] obj.t = "undefined" -> Undefined
      [] obj.t = "str" -> Defined(StringifyString(obj.s))
      [] obj.t = "num" -> Defined(StringifyNat(obj.n))
      [] obj.t = "bool" -> Defined(IF obj.b THEN "true" ELSE "false")
      [] obj.t = "arr" ->
            LET items == [i \in 1..Len(obj.items) |-> canonicalJSON(obj.items[i])]
            IN  Defined("[" \o Join(items) \o "]")
      [] obj.t = "obj" ->
            LET keys == SortKeys({obj.kv[i][1] : i \in 1..Len(obj.kv)})
                pairs == [i \in 1..Len(keys) |->
                            LET value == canonicalJSON(Field(obj.kv, keys[i]))
                            IN  IF ~value.def THEN Undefined
                                ELSE Defined(StringifyString(keys[i]) \o ":" \o value.str)]
            IN  Defined("{" \o Join(DefinedOnly(pairs)) \o "}")

\* SHA-256 in lowercase hex, as a symbolic digest: distinct texts have distinct
\* digests (no collision of SHA-256 is modelled).
SHA256(text) == "sha256(" \o text \o ")"

\* The text computeHash digests: a string payload as it is, any other payload
\* canonicalized; TextEncoder.encode(undefined) encodes the empty string.
HashText(content) ==
    IF content.t = "str" THEN content.s
    ELSE LET c == canonicalJSON(content)
         IN  IF c.def THEN c.str ELSE ""

computeHash(content) == SHA256(HashText(content))

(***************************************************************************)
(* Inputs of the API calls.                                                *)
(***************************************************************************)
\* An object payload, a second one, and a string payload whose characters are
\* the canonical text of the first.
PObjA == Obj(<< <<"name", Str("a")>> >>)
PObjB == Obj(<< <<"name", Str("b")>> >>)
PStrA == Str("{\"name\":\"a\"}")
Payloads == {PObjA, PObjB, PStrA}

\* The data blobs the updates are called with.
DataBlobs == {PObjA, PObjB}

\* type = 'user' | 'trifle' | 'file'
Types == {"user", "trifle", "file"}

\* label = 'session' | 'checkpoint'
Labels == {"session", "checkpoint"}

\* Display names and trifle names.
Names == {"a"}

\* Payloads given to computeHash: objects that differ in key order, in
\* undefined-valued fields, in a null-valued field and in array order, at the
\* top and nested; an array with an undefined element; and a string that is
\* the canonical text of an object.
HInner == Obj(<< <<"y", Null>>, <<"x", Arr(<<Num(1), Num(2)>>)>> >>)
HInnerReordered == Obj(<< <<"x", Arr(<<Num(1), Num(2)>>)>>, <<"y", Null>> >>)
HInnerUndefined ==
    Obj(<< <<"x", Arr(<<Num(1), Num(2)>>)>>, <<"z", Undef>>, <<"y", Null>> >>)
HInnerSwapped == Obj(<< <<"y", Null>>, <<"x", Arr(<<Num(2), Num(1)>>)>> >>)
HInnerNoNull == Obj(<< <<"x", Arr(<<Num(1), Num(2)>>)>> >>)

HashPayloads ==
    {Obj(<< <<"b", Num(1)>>, <<"a", HInner>> >>),
     Obj(<< <<"a", HInnerReordered>>, <<"c", Undef>>, <<"b", Num(1)>> >>),
     Obj(<< <<"b", Num(1)>>, <<"a", HInnerUndefined>> >>),
     Obj(<< <<"b", Num(1)>>, <<"a", HInnerSwapped>> >>),
     Obj(<< <<"b", Num(1)>>, <<"a", HInnerNoNull>> >>),
     Obj(<< <<"a", Null>> >>),
     Obj(<< <<"a", Undef>> >>),
     Obj(<< >>),
     Arr(<<Undef>>),
     Arr(<< >>),
     PObjA,
     PStrA}

\* keepCount arguments tried.
KeepCounts == {0, 1, 2}

\* The ids generateId hands out, in the order it does: random 48-bit ids,
\* taken never to repeat.
UserIdPool == <<"user_1">>
TrifleIdPool == <<"trifle_1", "trifle_2">>
UserIds == {UserIdPool[i] : i \in 1..Len(UserIdPool)}
TrifleIds == {TrifleIdPool[i] : i \in 1..Len(TrifleIdPool)}

\* email: null
NullEmail == "null"

\* The user data blob createUser builds.
NewUserData(displayName) ==
    Obj(<< <<"display_name", Str(displayName)>>,
           <<"avatar", Null>>,
           <<"settings", Obj(<< <<"auto_sync", Bool(FALSE)>>,
                                <<"theme", Str("dark")>>,
                                <<"auto_save_interval", Num(60)>> >>)>> >>)

mainPyContent == Str("# Welcome to Trifle!\nprint(\"Hello, world!\")\n")

\* The trifle data blob createTrifle builds.
NewTrifleData(name, description, mainPyHash) ==
    Obj(<< <<"name", Str(name)>>,
           <<"description", Str(description)>>,
           <<"files", Arr(<< Obj(<< <<"path", Str("main.py")>>,
                                    <<"hash", Str(mainPyHash)>> >>) >>)>> >>)

(***************************************************************************)
(* State.                                                                  *)
(***************************************************************************)
VARIABLES
    content,        \* object store 'content': records {hash, data, type}
    users,          \* object store 'users': {id, email, current_hash, last_modified, logical_clock}
    trifles,        \* object store 'trifles': {id, owner_id, current_hash, last_modified, logical_clock}
    versions,       \* object store 'versions': {id, trifle_id, hash, timestamp, label}
    nextVersionId,  \* key generator of 'versions' (autoIncrement)
    now,            \* Date.now()
    nUserIds,       \* user ids generated so far
    nTrifleIds,     \* trifle ids generated so far
    pc,             \* per caller: the transaction its call waits for
    loc,            \* per caller: the locals of its running call
    last,           \* the call that ended last, with what it returned or threw
    budget,         \* calls that may still start
    remoteFiles,    \* remote keys file/../{hash}: records {hash, data}
    remotePtrs,     \* remote pointer records {id, current_hash, last_modified, logical_clock}
    sync,           \* per pointer id: the state of the sync engine for it
    remoteKeys,     \* remote keys under user/.. and domain/..: records {key, value}
    migration,      \* the key-space migration of the account: {state, todo, error}
    editor,         \* state of the editor page: {value, isDirty, saveTimeout, currentFile}
    saveTasks,      \* the running calls of saveCurrentFile
    swCaches,       \* CacheStorage: cache name -> the requests that have a response
    swFetches,      \* service worker: the fetch events being answered
    swLast,         \* service worker: the request answered last and from where
    importEnv,      \* Python worker: {currentTrifleId, loadedTrifles, sysModules, loaded}
    loadMsg,        \* the load-files message handled last
    importResult,   \* the import made since that message and what it gave
    channels,       \* messages in flight: {toMain, toWorker}
    pyRun,          \* Python worker: the run, inputResolver, what input() returned
    term,           \* page and its Terminal: {host, isWaitingForInput, inputResolver, ...}
    frameManager,   \* FrameManager: {_frames, _frameCount, _buffer, _updateScheduled}
    animationFrames,\* batches handed to requestAnimationFrame, oldest first
    turtleRun,      \* the turtle program: {_filling, queued, executed, ...}
    avatar,         \* avatar editor: {shapes, undoShapes, selectedShapeId}
    drag,           \* its drag: {isDragging, isDuplicating, duplicatedShapeId, ...}
    snipPage,       \* documentation page: {activeSnippet, isRunning, inbox, handled}
    snipWorker,     \* its shared worker: {inbox, file, globals, runs}
    snipResult,     \* what the last run of a snippet read
    pyWorker,       \* the Python worker: {pyodide, isRunning, inputResolver, executions, ...}
    runPage         \* the editor page that runs it: {worker, workerReady, isRunning, ...}

vars == <<content, users, trifles, versions, nextVersionId, now,
          nUserIds, nTrifleIds, pc, loc, last, budget,
          remoteFiles, remotePtrs, sync, remoteKeys, migration,
          editor, saveTasks, swCaches, swFetches, swLast,
          importEnv, loadMsg, importResult, channels, pyRun, term,
          frameManager, animationFrames, turtleRun, avatar, drag,
          snipPage, snipWorker, snipResult, pyWorker, runPage>>

\* The local database and its callers.
dbVars == <<content, users, trifles, versions, nextVersionId, now,
            nUserIds, nTrifleIds, pc, loc, last>>

\* The key-space migration.
migVars == <<remoteKeys, migration>>

\* The editor page and its saves.
edVars == <<editor, saveTasks>>

\* The service worker.
swVars == <<swCaches, swFetches, swLast>>

\* The trifle imports of the Python worker.
impVars == <<importEnv, loadMsg, importResult>>

\* input(): the worker, the page and the messages between them.
inpVars == <<channels, pyRun, term>>

\* Turtle graphics: the frame manager and what it has drawn.
turVars == <<frameManager, animationFrames, turtleRun>>

\* The avatar editor of the profile page.
avVars == <<avatar, drag>>

\* The runnable snippets of a documentation page and their shared worker.
snipVars == <<snipPage, snipWorker, snipResult>>

\* The Python worker and the messages it handles.
wkVars == <<pyWorker, runPage>>

\* The remote store and the sync engine.
syncVars == <<remoteFiles, remotePtrs, sync>>

stores == <<content, users, trifles, versions, nextVersionId>>

\* What lies outside the database and the sync engine.
appVars == <<migVars, edVars, swVars, impVars, inpVars, turVars, avVars, snipVars, wkVars>>

\* The same without one component, for the steps of that component.
notMig == <<syncVars, edVars, swVars, impVars, inpVars, turVars, avVars, snipVars, wkVars>>
notEd == <<syncVars, migVars, swVars, impVars, inpVars, turVars, avVars, snipVars, wkVars>>
notSw == <<syncVars, migVars, edVars, impVars, inpVars, turVars, avVars, snipVars, wkVars>>
notImp == <<syncVars, migVars, edVars, swVars, inpVars, turVars, avVars, snipVars, wkVars>>
notInp == <<syncVars, migVars, edVars, swVars, impVars, turVars, avVars, snipVars, wkVars>>
notTur == <<syncVars, migVars, edVars, swVars, impVars, inpVars, avVars, snipVars, wkVars>>
notAv == <<syncVars, migVars, edVars, swVars, impVars, inpVars, turVars, snipVars, wkVars>>
notSnip == <<syncVars, migVars, edVars, swVars, impVars, inpVars, turVars, avVars, wkVars>>
notWk == <<syncVars, migVars, edVars, swVars, impVars, inpVars, turVars, avVars, snipVars>>

\* undefined, where a pointer record is expected
NoPtr == [id |-> ""]

\* Locals of a running call: its arguments, the pointer record it read or
\* built, the hash storeContent returned, the versions it selected.
NoLoc == [op |-> "", id |-> "", data |-> Null, ptr |-> NoPtr, hash |-> "",
          toDelete |-> <<>>, keepCount |-> 0]

\* The end of a call: who called what on which id (and with which keepCount),
\* the status ("ok" or the error thrown), and what it resolved with where the
\* properties read it (the payload and hash of storeContent, the count of
\* cleanupVersions, the id of the record of createVersion).  n numbers the
\* ended calls.
NoEvent == [proc |-> "", op |-> "", id |-> "", keepCount |-> 0, status |-> "",
            data |-> Null, hash |-> "", count |-> 0, versionId |-> 0, n |-> 0]

Ended(p, op, id, status) ==
    [NoEvent EXCEPT !.proc = p, !.op = op, !.id = id, !.status = status,
                    !.n = last.n + 1]

(***************************************************************************)
(* IndexedDB object stores.  A store with a keyPath holds at most one      *)
(* record per key: put replaces the record of the same key, add fails when *)
(* the key is present, delete of an absent key does nothing.               *)
(***************************************************************************)
\* db.createObjectStore('content', { keyPath: 'hash' }) and store.put(record)
ContentPut_NoReplace(store, record) == store \cup {record}

ContentPut(store, record) ==
    {r \in store : r.hash # record.hash} \cup {record}

\* createObjectStore('users' | 'trifles', { keyPath: 'id' }) and store.put(record)
PointerPut_ReplaceAll(store, record) == {record}

PointerPut(store, record) ==
    {r \in store : r.id # record.id} \cup {record}

\* store.add(record) on 'users' | 'trifles': a ConstraintError when the id is present
PointerAddFails(store, record) == \E r \in store : r.id = record.id

PointerAdd(store, record) ==
    IF PointerAddFails(store, record) THEN store ELSE store \cup {record}

\* store.get(id): the record, or NoPtr for undefined
PointerGet(store, id) ==
    IF \E r \in store : r.id = id
    THEN CHOOSE r \in store : r.id = id
    ELSE NoPtr

Start(p) == pc[p] = "idle" /\ budget > 0

\* Time passes.
Tick ==
    /\ now < MaxTime
    /\ now' = now + 1
    /\ UNCHANGED <<stores, nUserIds, nTrifleIds, pc, loc, last, budget>>
    /\ UNCHANGED syncVars
    /\ UNCHANGED appVars

(***************************************************************************)
(* Content store.                                                          *)
(***************************************************************************)
\* The transaction of storeContent(data, type), hash being computeHash(data):
\* store.put({ hash, data, type })
storeContentTx_NotWritten(hash, data, type) == content

storeContentTx(hash, data, type) ==
    ContentPut(content, [hash |-> hash, data |-> data, type |-> type])

\* getContent(hash): record.data, or Null when there is no record
getContent(hash) ==
    IF \E r \in content : r.hash = hash
    THEN (CHOOSE r \in content : r.hash = hash).data
    ELSE Null

\* A call of TrifleDB.storeContent(data, type) by itself (the editor stores
\* file contents this way): it resolves with the hash.
storeContent(p) ==
    /\ Start(p)
    /\ \E data \in Payloads, type \in Types :
        LET hash == computeHash(data)
        IN  /\ content' = storeContentTx(hash, data, type)
            /\ last' = [Ended(p, "storeContent", "", "ok") EXCEPT
                            !.data = data, !.hash = hash]
    /\ budget' = budget - 1
    /\ UNCHANGED <<users, trifles, versions, nextVersionId, now, nUserIds,
                   nTrifleIds, pc, loc>>
    /\ UNCHANGED syncVars
    /\ UNCHANGED appVars

\* A call of TrifleDB.computeHash(content): the caller keeps the payload it
\* gave and the hash it got back.
computeHash_call(p) ==
    /\ Start(p)
    /\ \E payload \in HashPayloads :
        LET hash == computeHash(payload)
        IN  /\ loc' = [loc EXCEPT ![p] = [NoLoc EXCEPT !.op = "computeHash",
                             !.data = payload, !.hash = hash]]
            /\ last' = [Ended(p, "computeHash", "", "ok") EXCEPT
                            !.data = payload, !.hash = hash]
    /\ budget' = budget - 1
    /\ UNCHANGED <<stores, now, nUserIds, nTrifleIds, pc>>
    /\ UNCHANGED syncVars
    /\ UNCHANGED appVars

(***************************************************************************)
(* Users.                                                                  *)
(***************************************************************************)
\* createUser(displayName) up to the end of its storeContent: the id is
\* generated, the user data blob stored and the pointer record built.
createUser_storeContent(p) ==
    /\ Start(p)
    /\ nUserIds < Len(UserIdPool)
    /\ \E displayName \in Names :
        LET userData == NewUserData(displayName)
            hash == computeHash(userData)
            user == [id |-> UserIdPool[nUserIds + 1],
                     email |-> NullEmail,
                     current_hash |-> hash,
                     last_modified |-> now,
                     logical_clock |-> 1]
        IN  /\ content' = storeContentTx(hash, userData, "user")
            /\ loc' = [loc EXCEPT ![p] = [NoLoc EXCEPT !.op = "createUser",
                            !.id = user.id, !.data = userData,
                            !.hash = user.current_hash, !.ptr = user]]
    /\ nUserIds' = nUserIds + 1
    /\ pc' = [pc EXCEPT ![p] = "createUser_add"]
    /\ budget' = budget - 1
    /\ UNCHANGED <<users, trifles, versions, nextVersionId, now, nTrifleIds, last>>
    /\ UNCHANGED syncVars
    /\ UNCHANGED appVars

\* createUser: the transaction store.add(user)
createUser_add(p) ==
    /\ pc[p] = "createUser_add"
    /\ users' = PointerAdd(users, loc[p].ptr)
    /\ last' = Ended(p, "createUser", loc[p].id,
                     IF PointerAddFails(users, loc[p].ptr) THEN "ConstraintError" ELSE "ok")
    /\ loc' = [loc EXCEPT ![p] = NoLoc]
    /\ pc' = [pc EXCEPT ![p] = "idle"]
    /\ UNCHANGED <<content, trifles, versions, nextVersionId, now, nUserIds,
                   nTrifleIds, budget>>
    /\ UNCHANGED syncVars
    /\ UNCHANGED appVars

\* updateUser(userId, userData) up to its lookup: getUser(userId), and
\* 'User not found' thrown when there is none.
updateUser_getUser(p) ==
    /\ Start(p)
    /\ \E userId \in UserIds, userData \in DataBlobs :
        LET user == PointerGet(users, userId)
        IN  IF user = NoPtr
            THEN /\ last' = Ended(p, "updateUser", userId, "NotFound")
                 /\ UNCHANGED <<pc, loc>>
            ELSE /\ loc' = [loc EXCEPT ![p] = [NoLoc EXCEPT !.op = "updateUser",
                                 !.id = userId, !.data = userData, !.ptr = user]]
                 /\ pc' = [pc EXCEPT ![p] = "updateUser_storeContent"]
                 /\ UNCHANGED last
    /\ budget' = budget - 1
    /\ UNCHANGED <<stores, now, nUserIds, nTrifleIds>>
    /\ UNCHANGED syncVars
    /\ UNCHANGED appVars

\* The pointer record an update writes back: the record it read, with the new
\* hash, the time, and the clock of that record plus one.
UpdatedPointer(ptr, hash, time) ==
    [ptr EXCEPT !.current_hash = hash,
                !.last_modified = time,
                !.logical_clock = ptr.logical_clock + 1]

\* updateUser: storeContent(userData, 'user'), then the fields of the record
\* read are set.
updateUser_storeContent(p) ==
    /\ pc[p] = "updateUser_storeContent"
    /\ LET hash == computeHash(loc[p].data)
       IN  /\ content' = storeContentTx(hash, loc[p].data, "user")
           /\ loc' = [loc EXCEPT ![p].hash = hash,
                                 ![p].ptr = UpdatedPointer(loc[p].ptr, hash, now)]
    /\ pc' = [pc EXCEPT ![p] = "updateUser_put"]
    /\ UNCHANGED <<users, trifles, versions, nextVersionId, now, nUserIds,
                   nTrifleIds, last, budget>>
    /\ UNCHANGED syncVars
    /\ UNCHANGED appVars

\* updateUser: the transaction store.put(user)
updateUser_put(p) ==
    /\ pc[p] = "updateUser_put"
    /\ users' = PointerPut(users, loc[p].ptr)
    /\ last' = Ended(p, "updateUser", loc[p].id, "ok")
    /\ loc' = [loc EXCEPT ![p] = NoLoc]
    /\ pc' = [pc EXCEPT ![p] = "idle"]
    /\ UNCHANGED <<content, trifles, versions, nextVersionId, now, nUserIds,
                   nTrifleIds, budget>>
    /\ UNCHANGED syncVars
    /\ UNCHANGED appVars

(***************************************************************************)
(* Trifles.                                                                *)
(***************************************************************************)
\* createTrifle(ownerId, name) up to the end of its first storeContent:
\* the id is generated and main.py stored.
createTrifle_storeMainPy(p) ==
    /\ Start(p)
    /\ nTrifleIds < Len(TrifleIdPool)
    /\ \E ownerId \in UserIds, name \in Names :
        LET mainPyHash == computeHash(mainPyContent)
        IN  /\ content' = storeContentTx(mainPyHash, mainPyContent, "file")
            /\ loc' = [loc EXCEPT ![p] = [NoLoc EXCEPT !.op = "createTrifle",
                            !.id = TrifleIdPool[nTrifleIds + 1],
                            !.data = NewTrifleData(name, "", mainPyHash),
                            !.ptr = [id |-> TrifleIdPool[nTrifleIds + 1],
                                     owner_id |-> ownerId]]]
    /\ nTrifleIds' = nTrifleIds + 1
    /\ pc' = [pc EXCEPT ![p] = "createTrifle_storeContent"]
    /\ budget' = budget - 1
    /\ UNCHANGED <<users, trifles, versions, nextVersionId, now, nUserIds, last>>
    /\ UNCHANGED syncVars
    /\ UNCHANGED appVars

\* createTrifle: storeContent(trifleData, 'trifle'), then the pointer record
\* is built.
createTrifle_storeContent(p) ==
    /\ pc[p] = "createTrifle_storeContent"
    /\ LET hash == computeHash(loc[p].data)
       IN  /\ content' = storeContentTx(hash, loc[p].data, "trifle")
           /\ loc' = [loc EXCEPT ![p].hash = hash,
                                 ![p].ptr = [id |-> loc[p].ptr.id,
                                             owner_id |-> loc[p].ptr.owner_id,
                                             current_hash |-> hash,
                                             last_modified |-> now,
                                             logical_clock |-> 1]]
    /\ pc' = [pc EXCEPT ![p] = "createTrifle_add"]
    /\ UNCHANGED <<users, trifles, versions, nextVersionId, now, nUserIds,
                   nTrifleIds, last, budget>>
    /\ UNCHANGED syncVars
    /\ UNCHANGED appVars

\* createTrifle: the transaction store.add(trifle)
createTrifle_add(p) ==
    /\ pc[p] = "createTrifle_add"
    /\ trifles' = PointerAdd(trifles, loc[p].ptr)
    /\ last' = Ended(p, "createTrifle", loc[p].id,
                     IF PointerAddFails(trifles, loc[p].ptr) THEN "ConstraintError" ELSE "ok")
    /\ loc' = [loc EXCEPT ![p] = NoLoc]
    /\ pc' = [pc EXCEPT ![p] = "idle"]
    /\ UNCHANGED <<content, users, versions, nextVersionId, now, nUserIds,
                   nTrifleIds, budget>>
    /\ UNCHANGED syncVars
    /\ UNCHANGED appVars

\* updateTrifle(trifleId, trifleData) up to its lookup: getTrifle(trifleId),
\* and 'Trifle not found' thrown when there is none.
updateTrifle_getTrifle_StoreFirst(p) ==
    /\ Start(p)
    /\ \E trifleId \in TrifleIds, trifleData \in DataBlobs :
        LET trifle == PointerGet(trifles, trifleId)
        IN  /\ content' = storeContentTx(computeHash(trifleData), trifleData, "trifle")
            /\ IF trifle = NoPtr
               THEN /\ last' = Ended(p, "updateTrifle", trifleId, "NotFound")
                    /\ UNCHANGED <<pc, loc>>
               ELSE /\ loc' = [loc EXCEPT ![p] = [NoLoc EXCEPT !.op = "updateTrifle",
                                    !.id = trifleId, !.data = trifleData, !.ptr = trifle]]
                    /\ pc' = [pc EXCEPT ![p] = "updateTrifle_storeContent"]
                    /\ UNCHANGED last
    /\ budget' = budget - 1
    /\ UNCHANGED <<users, trifles, versions, nextVersionId, now, nUserIds, nTrifleIds>>
    /\ UNCHANGED syncVars
    /\ UNCHANGED appVars

updateTrifle_getTrifle(p) ==
    /\ Start(p)
    /\ \E trifleId \in TrifleIds, trifleData \in DataBlobs :
        LET trifle == PointerGet(trifles, trifleId)
        IN  IF trifle = NoPtr
            THEN /\ last' = Ended(p, "updateTrifle", trifleId, "NotFound")
                 /\ UNCHANGED <<pc, loc>>
            ELSE /\ loc' = [loc EXCEPT ![p] = [NoLoc EXCEPT !.op = "updateTrifle",
                                 !.id = trifleId, !.data = trifleData, !.ptr = trifle]]
                 /\ pc' = [pc EXCEPT ![p] = "updateTrifle_storeContent"]
                 /\ UNCHANGED last
    /\ budget' = budget - 1
    /\ UNCHANGED <<stores, now, nUserIds, nTrifleIds>>
    /\ UNCHANGED syncVars
    /\ UNCHANGED appVars

\* updateTrifle: storeContent(trifleData, 'trifle'), then the fields of the
\* record read are set.
updateTrifle_storeContent(p) ==
    /\ pc[p] = "updateTrifle_storeContent"
    /\ LET hash == computeHash(loc[p].data)
       IN  /\ content' = storeContentTx(hash, loc[p].data, "trifle")
           /\ loc' = [loc EXCEPT ![p].hash = hash,
                                 ![p].ptr = UpdatedPointer(loc[p].ptr, hash, now)]
    /\ pc' = [pc EXCEPT ![p] = "updateTrifle_put"]
    /\ UNCHANGED <<users, trifles, versions, nextVersionId, now, nUserIds,
                   nTrifleIds, last, budget>>
    /\ UNCHANGED syncVars
    /\ UNCHANGED appVars

\* updateTrifle: the transaction store.put(trifle)
updateTrifle_put(p) ==
    /\ pc[p] = "updateTrifle_put"
    /\ trifles' = PointerPut(trifles, loc[p].ptr)
    /\ last' = Ended(p, "updateTrifle", loc[p].id, "ok")
    /\ loc' = [loc EXCEPT ![p] = NoLoc]
    /\ pc' = [pc EXCEPT ![p] = "idle"]
    /\ UNCHANGED <<content, users, versions, nextVersionId, now, nUserIds,
                   nTrifleIds, budget>>
    /\ UNCHANGED syncVars
    /\ UNCHANGED appVars

\* deleteTrifle(trifleId): one transaction over 'trifles' and 'versions'
\* deletes the pointer and, by a cursor over the trifle_id index, every
\* version of it.
deleteTrifle_PointerOnly(p) ==
    /\ Start(p)
    /\ \E trifleId \in TrifleIds :
        /\ trifles' = {r \in trifles : r.id # trifleId}
        /\ last' = Ended(p, "deleteTrifle", trifleId, "ok")
    /\ budget' = budget - 1
    /\ UNCHANGED <<content, users, versions, nextVersionId, now, nUserIds,
                   nTrifleIds, pc, loc>>
    /\ UNCHANGED syncVars
    /\ UNCHANGED appVars

deleteTrifle(p) ==
    /\ Start(p)
    /\ \E trifleId \in TrifleIds :
        /\ trifles' = {r \in trifles : r.id # trifleId}
        /\ versions' = {v \in versions : v.trifle_id # trifleId}
        /\ last' = Ended(p, "deleteTrifle", trifleId, "ok")
    /\ budget' = budget - 1
    /\ UNCHANGED <<content, users, nextVersionId, now, nUserIds, nTrifleIds, pc, loc>>
    /\ UNCHANGED syncVars
    /\ UNCHANGED appVars

(***************************************************************************)
(* Version log.                                                            *)
(***************************************************************************)
\* The hashes a caller snapshots.
VersionHashes == {computeHash(PObjA), computeHash(PObjB)}

\* createVersion(trifleId, hash, label): one transaction store.add(version);
\* the key generator gives the record its id.
createVersion_SkipSameHash(p) ==
    /\ Start(p)
    /\ \E trifleId \in TrifleIds, hash \in VersionHashes, label \in Labels :
        LET version == [id |-> nextVersionId,
                        trifle_id |-> trifleId,
                        hash |-> hash,
                        timestamp |-> now,
                        label |-> label]
        IN  /\ versions' = IF \E v \in versions : v.trifle_id = trifleId /\ v.hash = hash
                           THEN versions
                           ELSE versions \cup {version}
            /\ last' = [Ended(p, "createVersion", trifleId, "ok") EXCEPT
                            !.hash = hash, !.versionId = version.id]
    /\ nextVersionId' = nextVersionId + 1
    /\ budget' = budget - 1
    /\ UNCHANGED <<content, users, trifles, now, nUserIds, nTrifleIds, pc, loc>>
    /\ UNCHANGED syncVars
    /\ UNCHANGED appVars

createVersion(p) ==
    /\ Start(p)
    /\ \E trifleId \in TrifleIds, hash \in VersionHashes, label \in Labels :
        LET version == [id |-> nextVersionId,
                        trifle_id |-> trifleId,
                        hash |-> hash,
                        timestamp |-> now,
                        label |-> label]
        IN  /\ versions' = versions \cup {version}
            /\ last' = [Ended(p, "createVersion", trifleId, "ok") EXCEPT
                            !.hash = hash, !.versionId = version.id]
    /\ nextVersionId' = nextVersionId + 1
    /\ budget' = budget - 1
    /\ UNCHANGED <<content, users, trifles, now, nUserIds, nTrifleIds, pc, loc>>
    /\ UNCHANGED syncVars
    /\ UNCHANGED appVars

\* index.getAll(IDBKeyRange.only(trifleId)): the records of that trifle_id in
\* ascending order of their primary key.
RECURSIVE ByPrimaryKey(_)
ByPrimaryKey(records) ==
    IF records = {} THEN <<>>
    ELSE LET first == CHOOSE r \in records : \A o \in records : r.id <= o.id
         IN  <<first>> \o ByPrimaryKey(records \ {first})

IndexGetAll(trifleId) ==
    ByPrimaryKey({v \in versions : v.trifle_id = trifleId})

\* Array.prototype.sort((a, b) => b.timestamp - a.timestamp): a stable sort,
\* here by insertion from the right.
RECURSIVE InsertNewestFirst(_, _)
InsertNewestFirst(v, sorted) ==
    IF Len(sorted) = 0 THEN <<v>>
    ELSE IF sorted[1].timestamp > v.timestamp
         THEN <<sorted[1]>> \o InsertNewestFirst(v, Tail(sorted))
         ELSE <<v>> \o sorted

SortNewestFirst_Unsorted(list) == list

RECURSIVE SortNewestFirst(_)
SortNewestFirst(list) ==
    IF Len(list) = 0 THEN <<>>
    ELSE InsertNewestFirst(list[1], SortNewestFirst(Tail(list)))

\* getVersions(trifleId)
getVersions(trifleId) == SortNewestFirst(IndexGetAll(trifleId))

\* Array.prototype.slice(start), start >= 0
Slice(list, start) == SubSeq(list, start + 1, Len(list))

\* The versions cleanupVersions selects from the list it read.
ToDelete_AnyLabel(list, keepCount) == Slice(list, keepCount)

ToDelete(list, keepCount) ==
    Slice(SelectSeq(list, LAMBDA v : v.label = "session"), keepCount)

\* cleanupVersions(trifleId, keepCount) up to its read: getVersions, the
\* selection, and 0 returned when nothing is selected.
cleanupVersions_getVersions(p) ==
    /\ Start(p)
    /\ \E trifleId \in TrifleIds, keepCount \in KeepCounts :
        LET toDelete == ToDelete(getVersions(trifleId), keepCount)
        IN  IF Len(toDelete) = 0
            THEN /\ last' = [Ended(p, "cleanupVersions", trifleId, "ok") EXCEPT
                                 !.keepCount = keepCount, !.count = 0]
                 /\ UNCHANGED <<pc, loc>>
            ELSE /\ loc' = [loc EXCEPT ![p] = [NoLoc EXCEPT !.op = "cleanupVersions",
                                 !.id = trifleId, !.keepCount = keepCount,
                                 !.toDelete = toDelete]]
                 /\ pc' = [pc EXCEPT ![p] = "cleanupVersions_delete"]
                 /\ UNCHANGED last
    /\ budget' = budget - 1
    /\ UNCHANGED <<stores, now, nUserIds, nTrifleIds>>
    /\ UNCHANGED syncVars
    /\ UNCHANGED appVars

\* cleanupVersions: the transaction toDelete.forEach(v => store.delete(v.id)),
\* resolved with toDelete.length
cleanupVersions_delete_FirstOnly(p) ==
    /\ pc[p] = "cleanupVersions_delete"
    /\ versions' = {v \in versions : loc[p].toDelete[1].id # v.id}
    /\ last' = [Ended(p, "cleanupVersions", loc[p].id, "ok") EXCEPT
                    !.keepCount = loc[p].keepCount,
                    !.count = Len(loc[p].toDelete)]
    /\ loc' = [loc EXCEPT ![p] = NoLoc]
    /\ pc' = [pc EXCEPT ![p] = "idle"]
    /\ UNCHANGED <<content, users, trifles, nextVersionId, now, nUserIds,
                   nTrifleIds, budget>>
    /\ UNCHANGED syncVars
    /\ UNCHANGED appVars

cleanupVersions_delete(p) ==
    /\ pc[p] = "cleanupVersions_delete"
    /\ versions' = {v \in versions :
                      \A i \in 1..Len(loc[p].toDelete) : loc[p].toDelete[i].id # v.id}
    /\ last' = [Ended(p, "cleanupVersions", loc[p].id, "ok") EXCEPT
                    !.keepCount = loc[p].keepCount,
                    !.count = Len(loc[p].toDelete)]
    /\ loc' = [loc EXCEPT ![p] = NoLoc]
    /\ pc' = [pc EXCEPT ![p] = "idle"]
    /\ UNCHANGED <<content, users, trifles, nextVersionId, now, nUserIds,
                   nTrifleIds, budget>>
    /\ UNCHANGED syncVars
    /\ UNCHANGED appVars

(***************************************************************************)
(* A write transaction that fails (tx.onerror): nothing of it is written   *)
(* and the call rejects with the error, at whichever step it waits.        *)
(***************************************************************************)
TxFail(p) ==
    /\ pc[p] # "idle"
    /\ last' = [Ended(p, loc[p].op, loc[p].id, "TxError") EXCEPT
                    !.keepCount = loc[p].keepCount]
    /\ loc' = [loc EXCEPT ![p] = NoLoc]
    /\ pc' = [pc EXCEPT ![p] = "idle"]
    /\ UNCHANGED <<stores, now, nUserIds, nTrifleIds, budget>>
    /\ UNCHANGED syncVars
    /\ UNCHANGED appVars

(***************************************************************************)
(* The sync engine (SyncManager of /js/sync-kv.js, which python-env.js     *)
(* imports and calls): one state machine per pointer id, driven on each    *)
(* sync attempt, one step per request to the remote store or per local     *)
(* transaction.                                                            *)
(***************************************************************************)
\* The pointers the engine reconciles.
SyncIds == {TrifleIdPool[1]}

\* Unsynced -> Pushing -> Reconciled, Unsynced -> Pulling -> Conflict ->
\* Resolved, and Failed from a request that did not succeed.
SyncStates ==
    {"Unsynced", "Pushing", "Pulling", "Conflict", "Resolved", "Reconciled", "Failed"}

\* What resolve(local, remote) may answer for a pointer that exists on both sides.
ResolveActions == {"Overwrite", "Rename", "Skip"}

\* The engine's record for a pointer before its first pass.
NoSync ==
    [state |-> "Unsynced", step |-> "", plan |-> "", local |-> NoPtr,
     remote |-> NoPtr, payload |-> Null, lastKnown |-> "", recommend |-> "",
     chosen |-> "", error |-> ""]

\* The hashes a data blob lists in its files.
FileHashes(data) ==
    IF data.t = "obj" /\ \E i \in 1..Len(data.kv) : data.kv[i][1] = "files"
    THEN LET files == Field(data.kv, "files").items
         IN  {Field(files[i].kv, "hash").s : i \in 1..Len(files)}
    ELSE {}

\* The content blobs a local pointer record refers to.
Referenced(ptr) ==
    {ptr.current_hash} \cup FileHashes(getContent(ptr.current_hash))

RemoteHashes == {f.hash : f \in remoteFiles}

RemoteFile(hash) ==
    IF hash \in RemoteHashes
    THEN (CHOOSE f \in remoteFiles : f.hash = hash).data
    ELSE Null

\* Neither side dominates unless the other side still holds the hash the
\* two last agreed on.
LocalDominates(local, remote, lastKnown) ==
    /\ remote.current_hash = lastKnown
    /\ remote.logical_clock < local.logical_clock

RemoteDominates(local, remote, lastKnown) ==
    /\ local.current_hash = lastKnown
    /\ local.logical_clock < remote.logical_clock

\* The keep-newer policy: the side with the larger last_modified.
KeepNewer(local, remote) ==
    IF remote.last_modified > local.last_modified THEN "keepRemote" ELSE "keepLocal"

SyncFrame == UNCHANGED <<users, now, nUserIds, pc, loc, last, appVars>>

\* Step 1 to 4 of a pass: the remote pointer record is fetched and compared
\* with the local one.
sync_fetch_PushEqual(id) ==
    /\ budget > 0
    /\ sync[id].state \in {"Unsynced", "Failed", "Reconciled", "Resolved"}
    /\ PointerGet(trifles, id) # NoPtr
    /\ LET local == PointerGet(trifles, id)
           remote == PointerGet(remotePtrs, id)
           known == sync[id].lastKnown
           pass == [NoSync EXCEPT !.local = local, !.remote = remote,
                                  !.lastKnown = known]
       IN  sync' = [sync EXCEPT ![id] =
                IF remote = NoPtr \/ remote.current_hash = local.current_hash
                THEN [pass EXCEPT !.state = "Pushing", !.step = "upload",
                                  !.plan = "push"]
                ELSE IF LocalDominates(local, remote, known)
                THEN [pass EXCEPT !.state = "Pushing", !.step = "upload",
                                  !.plan = "push"]
                ELSE IF RemoteDominates(local, remote, known)
                THEN [pass EXCEPT !.state = "Pulling", !.step = "download",
                                  !.plan = "pull"]
                ELSE [pass EXCEPT !.state = "Pulling", !.step = "download",
                                  !.plan = "conflict"]]
    /\ budget' = budget - 1
    /\ SyncFrame
    /\ UNCHANGED <<content, trifles, versions, nextVersionId, nTrifleIds,
                   remoteFiles, remotePtrs>>

sync_fetch(id) ==
    /\ budget > 0
    /\ sync[id].state \in {"Unsynced", "Failed", "Reconciled", "Resolved"}
    /\ PointerGet(trifles, id) # NoPtr
    /\ LET local == PointerGet(trifles, id)
           remote == PointerGet(remotePtrs, id)
           known == sync[id].lastKnown
           pass == [NoSync EXCEPT !.local = local, !.remote = remote,
                                  !.lastKnown = known]
       IN  sync' = [sync EXCEPT ![id] =
                IF remote = NoPtr
                THEN [pass EXCEPT !.state = "Pushing", !.step = "upload",
                                  !.plan = "push"]
                ELSE IF remote.current_hash = local.current_hash
                THEN [pass EXCEPT !.state = "Reconciled",
                                  !.lastKnown = local.current_hash]
                ELSE IF LocalDominates(local, remote, known)
                THEN [pass EXCEPT !.state = "Pushing", !.step = "upload",
                                  !.plan = "push"]
                ELSE IF RemoteDominates(local, remote, known)
                THEN [pass EXCEPT !.state = "Pulling", !.step = "download",
                                  !.plan = "pull"]
                ELSE [pass EXCEPT !.state = "Pulling", !.step = "download",
                                  !.plan = "conflict"]]
    /\ budget' = budget - 1
    /\ SyncFrame
    /\ UNCHANGED <<content, trifles, versions, nextVersionId, nTrifleIds,
                   remoteFiles, remotePtrs>>

\* Push, first part: one content blob the pointer refers to is uploaded.
sync_uploadContent(id) ==
    /\ sync[id].state = "Pushing"
    /\ sync[id].step = "upload"
    /\ \E hash \in Referenced(sync[id].local) \ RemoteHashes :
        /\ \E r \in content : r.hash = hash
        /\ remoteFiles' = remoteFiles \cup {[hash |-> hash, data |-> getContent(hash)]}
    /\ SyncFrame
    /\ UNCHANGED <<content, trifles, versions, nextVersionId, nTrifleIds,
                   budget, remotePtrs, sync>>

\* Push, second part: the pointer record is uploaded once its blobs are there.
sync_uploadPointer_HashOnly(id) ==
    /\ sync[id].state = "Pushing"
    /\ sync[id].step = "upload"
    /\ Referenced(sync[id].local) \subseteq RemoteHashes
    /\ remotePtrs' = PointerPut(remotePtrs,
            IF sync[id].remote = NoPtr
            THEN sync[id].local
            ELSE [sync[id].remote EXCEPT
                    !.current_hash = sync[id].local.current_hash])
    /\ sync' = [sync EXCEPT ![id].state = "Reconciled", ![id].step = "",
                            ![id].lastKnown = sync[id].local.current_hash]
    /\ SyncFrame
    /\ UNCHANGED <<content, trifles, versions, nextVersionId, nTrifleIds,
                   budget, remoteFiles>>

sync_uploadPointer_First(id) ==
    /\ sync[id].state = "Pushing"
    /\ sync[id].step = "upload"
    /\ remotePtrs' = PointerPut(remotePtrs, sync[id].local)
    /\ sync' = [sync EXCEPT ![id].state = "Reconciled", ![id].step = "",
                            ![id].lastKnown = sync[id].local.current_hash]
    /\ SyncFrame
    /\ UNCHANGED <<content, trifles, versions, nextVersionId, nTrifleIds,
                   budget, remoteFiles>>

sync_uploadPointer(id) ==
    /\ sync[id].state = "Pushing"
    /\ sync[id].step = "upload"
    /\ Referenced(sync[id].local) \subseteq RemoteHashes
    /\ remotePtrs' = PointerPut(remotePtrs, sync[id].local)
    /\ sync' = [sync EXCEPT ![id].state = "Reconciled", ![id].step = "",
                            ![id].lastKnown = sync[id].local.current_hash]
    /\ SyncFrame
    /\ UNCHANGED <<content, trifles, versions, nextVersionId, nTrifleIds,
                   budget, remoteFiles>>

\* Pull, first part: the payload is fetched and its hash recomputed. A
\* payload that does not hash to the claimed hash is discarded.
sync_download_Unverified(id) ==
    /\ sync[id].state = "Pulling"
    /\ sync[id].step = "download"
    /\ LET claimed == sync[id].remote.current_hash
           payload == RemoteFile(claimed)
       IN  sync' = [sync EXCEPT ![id] =
                IF claimed \notin RemoteHashes
                THEN [@ EXCEPT !.state = "Failed", !.step = "", !.error = "NotFound"]
                ELSE IF sync[id].plan = "pull"
                THEN [@ EXCEPT !.step = "snapshot", !.payload = payload]
                ELSE [@ EXCEPT !.state = "Conflict", !.step = "",
                               !.payload = payload,
                               !.recommend = KeepNewer(sync[id].local, sync[id].remote)]]
    /\ SyncFrame
    /\ UNCHANGED <<content, trifles, versions, nextVersionId, nTrifleIds,
                   budget, remoteFiles, remotePtrs>>

sync_download_AutoApply(id) ==
    /\ sync[id].state = "Pulling"
    /\ sync[id].step = "download"
    /\ LET claimed == sync[id].remote.current_hash
           payload == RemoteFile(claimed)
           recommend == KeepNewer(sync[id].local, sync[id].remote)
       IN  sync' = [sync EXCEPT ![id] =
                IF claimed \notin RemoteHashes
                THEN [@ EXCEPT !.state = "Failed", !.step = "", !.error = "NotFound"]
                ELSE IF computeHash(payload) # claimed
                THEN [@ EXCEPT !.state = "Failed", !.step = "",
                               !.error = "IntegrityError"]
                ELSE IF sync[id].plan = "pull" \/ recommend = "keepRemote"
                THEN [@ EXCEPT !.step = "snapshot", !.payload = payload,
                               !.recommend = recommend]
                ELSE [@ EXCEPT !.state = "Conflict", !.step = "",
                               !.payload = payload, !.recommend = recommend]]
    /\ SyncFrame
    /\ UNCHANGED <<content, trifles, versions, nextVersionId, nTrifleIds,
                   budget, remoteFiles, remotePtrs>>

sync_download(id) ==
    /\ sync[id].state = "Pulling"
    /\ sync[id].step = "download"
    /\ LET claimed == sync[id].remote.current_hash
           payload == RemoteFile(claimed)
       IN  sync' = [sync EXCEPT ![id] =
                IF claimed \notin RemoteHashes
                THEN [@ EXCEPT !.state = "Failed", !.step = "", !.error = "NotFound"]
                ELSE IF computeHash(payload) # claimed
                THEN [@ EXCEPT !.state = "Failed", !.step = "",
                               !.error = "IntegrityError"]
                ELSE IF sync[id].plan = "pull"
                THEN [@ EXCEPT !.step = "snapshot", !.payload = payload]
                ELSE [@ EXCEPT !.state = "Conflict", !.step = "",
                               !.payload = payload,
                               !.recommend = KeepNewer(sync[id].local, sync[id].remote)]]
    /\ SyncFrame
    /\ UNCHANGED <<content, trifles, versions, nextVersionId, nTrifleIds,
                   budget, remoteFiles, remotePtrs>>

\* The action chosen for a conflict from outside the engine.
sync_resolve(id) ==
    /\ sync[id].state = "Conflict"
    /\ sync[id].chosen = ""
    /\ \E action \in ResolveActions :
        /\ action = "Rename" => nTrifleIds < Len(TrifleIdPool)
        /\ sync' = [sync EXCEPT ![id] =
                CASE action = "Overwrite" -> [@ EXCEPT !.chosen = action, !.step = "snapshot"]
                  [] action = "Rename" -> [@ EXCEPT !.chosen = action, !.step = "store"]
                  [] action = "Skip" -> [@ EXCEPT !.chosen = action, !.state = "Resolved"]]
    /\ SyncFrame
    /\ UNCHANGED <<content, trifles, versions, nextVersionId, nTrifleIds,
                   budget, remoteFiles, remotePtrs>>

\* Pull, second part: the hash the local pointer holds is kept as a version.
sync_snapshot_Skipped(id) ==
    /\ sync[id].step = "snapshot"
    /\ sync' = [sync EXCEPT ![id].step = "store"]
    /\ SyncFrame
    /\ UNCHANGED <<content, trifles, versions, nextVersionId, nTrifleIds,
                   budget, remoteFiles, remotePtrs>>

sync_snapshot(id) ==
    /\ sync[id].step = "snapshot"
    /\ versions' = versions \cup
            {[id |-> nextVersionId,
              trifle_id |-> id,
              hash |-> PointerGet(trifles, id).current_hash,
              timestamp |-> now,
              label |-> "session"]}
    /\ nextVersionId' = nextVersionId + 1
    /\ sync' = [sync EXCEPT ![id].step = "store"]
    /\ SyncFrame
    /\ UNCHANGED <<content, trifles, nTrifleIds, budget, remoteFiles, remotePtrs>>

\* Pull, third part: the verified payload is stored under its hash.
sync_storeContent(id) ==
    /\ sync[id].step = "store"
    /\ content' = storeContentTx(sync[id].remote.current_hash, sync[id].payload, "trifle")
    /\ sync' = [sync EXCEPT ![id].step = IF sync[id].chosen = "Rename"
                                         THEN "add" ELSE "put"]
    /\ SyncFrame
    /\ UNCHANGED <<trifles, versions, nextVersionId, nTrifleIds, budget,
                   remoteFiles, remotePtrs>>

\* Pull, last part: the local pointer takes the remote hash and clock.
sync_putPointer(id) ==
    /\ sync[id].step = "put"
    /\ LET remote == sync[id].remote
       IN  trifles' = PointerPut(trifles,
                [PointerGet(trifles, id) EXCEPT
                    !.current_hash = remote.current_hash,
                    !.last_modified = remote.last_modified,
                    !.logical_clock = remote.logical_clock])
    /\ sync' = [sync EXCEPT
                ![id].state = IF sync[id].chosen = "" THEN "Reconciled" ELSE "Resolved",
                ![id].step = "",
                ![id].lastKnown = sync[id].remote.current_hash]
    /\ SyncFrame
    /\ UNCHANGED <<content, versions, nextVersionId, nTrifleIds, budget,
                   remoteFiles, remotePtrs>>

\* Rename: the remote candidate becomes a pointer of its own under a fresh
\* id, and the local pointer stays as it is.
sync_addRenamed(id) ==
    /\ sync[id].step = "add"
    /\ nTrifleIds < Len(TrifleIdPool)
    /\ trifles' = PointerAdd(trifles,
            [sync[id].local EXCEPT
                !.id = TrifleIdPool[nTrifleIds + 1],
                !.current_hash = sync[id].remote.current_hash,
                !.last_modified = now,
                !.logical_clock = 1])
    /\ nTrifleIds' = nTrifleIds + 1
    /\ sync' = [sync EXCEPT ![id].state = "Resolved", ![id].step = ""]
    /\ SyncFrame
    /\ UNCHANGED <<content, versions, nextVersionId, budget, remoteFiles, remotePtrs>>

\* A request that times out or is cancelled, or a pass that is cut short:
\* the pointer is left Failed, for a later pass to retry.
sync_fail(id) ==
    /\ sync[id].step # ""
    /\ sync' = [sync EXCEPT ![id].state = "Failed", ![id].step = "",
                            ![id].payload = Null, ![id].error = "NetworkError"]
    /\ SyncFrame
    /\ UNCHANGED <<content, trifles, versions, nextVersionId, nTrifleIds,
                   budget, remoteFiles, remotePtrs>>

(***************************************************************************)
(* The legacy key-space migration the sync engine runs on the first sync   *)
(* of an account: user/{email}/... is copied to                            *)
(* domain/{domain}/user/{localpart}/..., one request per key.              *)
(***************************************************************************)
\* The account that signs in, and another account of the same domain.
Email == "a@x"

OtherEmail == "ab@x"

\* s.indexOf(c), counted from 1; 0 when c does not occur.
RECURSIVE IndexOf(_, _, _)
IndexOf(s, c, from) ==
    IF from > Len(s) THEN 0
    ELSE IF SubSeq(s, from, from) = c THEN from
    ELSE IndexOf(s, c, from + 1)

\* email.split('@'): the local part and the domain.
LocalPart(email) == SubSeq(email, 1, IndexOf(email, "@", 1) - 1)

Domain(email) == SubSeq(email, IndexOf(email, "@", 1) + 1, Len(email))

LegacyPath(email) == "user/" \o email \o "/"

DomainPath(email) ==
    "domain/" \o Domain(email) \o "/user/" \o LocalPart(email) \o "/"

\* key.startsWith(prefix)
StartsWith(key, prefix) ==
    Len(key) >= Len(prefix) /\ SubSeq(key, 1, Len(prefix)) = prefix

\* The remote keys of a listing by prefix.
KeysUnder(keys, prefix) == {r \in keys : StartsWith(r.key, prefix)}

\* The key a legacy key of the account is copied to.
Rekey(key, email) ==
    DomainPath(email) \o SubSeq(key, Len(LegacyPath(email)) + 1, Len(key))

\* PUT of a remote key: the value under the key is replaced.
RemotePut(keys, record) ==
    {r \in keys : r.key # record.key} \cup {record}

NoMigration == [state |-> "Idle", todo |-> {}, error |-> ""]

\* A run starts: the legacy path and the new path of the account are listed,
\* and the legacy keys are to be copied when the new path is empty.
migrate_check_AnyPath ==
    /\ budget > 0
    /\ migration.state \in {"Idle", "Done", "Failed"}
    /\ LET legacy == KeysUnder(remoteKeys, LegacyPath(Email))
       IN  migration' =
                IF legacy # {}
                THEN [state |-> "Copying", todo |-> legacy, error |-> ""]
                ELSE [state |-> "Done", todo |-> {}, error |-> ""]
    /\ budget' = budget - 1
    /\ UNCHANGED <<dbVars, notMig, remoteKeys>>

migrate_check ==
    /\ budget > 0
    /\ migration.state \in {"Idle", "Done", "Failed"}
    /\ LET legacy == KeysUnder(remoteKeys, LegacyPath(Email))
           populated == KeysUnder(remoteKeys, DomainPath(Email))
       IN  migration' =
                IF legacy # {} /\ populated = {}
                THEN [state |-> "Copying", todo |-> legacy, error |-> ""]
                ELSE [state |-> "Done", todo |-> {}, error |-> ""]
    /\ budget' = budget - 1
    /\ UNCHANGED <<dbVars, notMig, remoteKeys>>

\* One legacy key is copied to the new path.
migrate_copy ==
    /\ migration.state = "Copying"
    /\ \E r \in migration.todo :
        /\ remoteKeys' = RemotePut(remoteKeys,
                [key |-> Rekey(r.key, Email), value |-> r.value])
        /\ migration' = [migration EXCEPT
                !.todo = @ \ {r},
                !.state = IF migration.todo = {r} THEN "Done" ELSE "Copying"]
    /\ UNCHANGED <<dbVars, notMig, budget>>

\* MigrationError: a copy failed; the run is retried on the next sync.
migrate_fail ==
    /\ migration.state = "Copying"
    /\ migration' = [state |-> "Failed", todo |-> {}, error |-> "MigrationError"]
    /\ UNCHANGED <<dbVars, notMig, budget, remoteKeys>>

(***************************************************************************)
(* The editor page: the change listener of initEditor, debouncedSave and   *)
(* saveCurrentFile, one step per timer, event or awaited transaction.      *)
(***************************************************************************)
\* What the user may type into the editor.
EditorTexts == {mainPyContent, Str("x = 1\n"), Str("x = 2\n")}

\* The calls of saveCurrentFile that may run at once: one per change.
SaveIds == 1..MaxEdits

\* path is the path of the file that was current when the call read the
\* text of the editor.
NoSave == [pc |-> "idle", content |-> Null, newHash |-> "", trifleData |-> Null,
           ptr |-> NoPtr, path |-> ""]

\* trifleData.files[fileIndex].hash = newHash, where fileIndex is the index
\* of the file with that path (no change when there is none).
SetFileHash(data, path, hash) ==
    LET files == Field(data.kv, "files").items
        updated == [i \in 1..Len(files) |->
                        IF Field(files[i].kv, "path") = Str(path)
                        THEN Obj(<< <<"path", Str(path)>>, <<"hash", Str(hash)>> >>)
                        ELSE files[i]]
    IN  Obj([j \in 1..Len(data.kv) |->
                IF data.kv[j][1] = "files"
                THEN <<"files", Arr(updated)>>
                ELSE data.kv[j]])

\* The hash the stored trifle has for a path ("" when it has none).
StoredFileHash(trifleId, path) ==
    LET data == getContent(PointerGet(trifles, trifleId).current_hash)
        files == Field(data.kv, "files").items
        hits == {i \in 1..Len(files) : Field(files[i].kv, "path") = Str(path)}
    IN  IF hits = {} THEN ""
        ELSE Field(files[CHOOSE i \in hits : TRUE].kv, "hash").s

\* state.editor.session.on('change'): the user edits the text.
editor_change ==
    /\ budget > 0
    /\ \E text \in EditorTexts \ {editor.value} :
        editor' = [editor EXCEPT !.value = text, !.isDirty = TRUE,
                                 !.saveTimeout = TRUE]
    /\ budget' = budget - 1
    /\ UNCHANGED <<dbVars, notEd, saveTasks>>

\* The timer of debouncedSave fires and saveCurrentFile starts: it returns
\* at once when nothing is dirty, else it takes the text of the editor.
editor_timeout ==
    /\ editor.saveTimeout
    /\ IF editor.currentFile = Null \/ ~editor.isDirty
       THEN /\ editor' = [editor EXCEPT !.saveTimeout = FALSE]
            /\ UNCHANGED saveTasks
       ELSE \E i \in SaveIds :
            /\ saveTasks[i].pc = "idle"
            /\ \A j \in SaveIds : j < i => saveTasks[j].pc # "idle"
            /\ editor' = [editor EXCEPT !.saveTimeout = FALSE,
                                        !.currentFile.content = editor.value]
            /\ saveTasks' = [saveTasks EXCEPT ![i] =
                    [NoSave EXCEPT !.pc = "storeContent", !.content = editor.value,
                                   !.path = editor.currentFile.path]]
    /\ UNCHANGED <<dbVars, notEd, budget>>

\* state.files: the file objects of the page. The object of the current
\* file is editor.currentFile, which the list holds by reference.
StateFiles ==
    [k \in 1..Len(editor.files) |->
        IF editor.currentFile # Null /\ editor.files[k].path = editor.currentFile.path
        THEN editor.currentFile
        ELSE editor.files[k]]

\* openFile calls saveCurrentFile when the current file is dirty.
Saving(ed) == ed.isDirty /\ ed.currentFile # Null

\* The call of saveCurrentFile that starts next.
FreeSave(tasks) ==
    CHOOSE i \in SaveIds :
        tasks[i].pc = "idle" /\ \A j \in SaveIds : j < i => tasks[j].pc # "idle"

\* The calls of saveCurrentFile once openFile has called it: it has read the
\* text and runs on after openFile has returned.
SaveStarted(ed, tasks) ==
    IF Saving(ed)
    THEN [tasks EXCEPT ![FreeSave(tasks)] =
            [NoSave EXCEPT !.pc = "storeContent",
                           !.content = ed.value,
                           !.path = ed.currentFile.path]]
    ELSE tasks

\* The page once openFile(file) has returned, file the entry of state.files
\* with that path: the file is the current one and its content the text of
\* the editor, whose change event sets the timer of debouncedSave.
AfterOpen(ed, path) ==
    LET current == IF Saving(ed)
                   THEN [ed.currentFile EXCEPT !.content = ed.value]
                   ELSE ed.currentFile
        filesNow == [j \in 1..Len(ed.files) |->
                        IF ed.currentFile # Null /\ ed.files[j].path = ed.currentFile.path
                        THEN current
                        ELSE ed.files[j]]
        file == filesNow[CHOOSE j \in 1..Len(filesNow) : filesNow[j].path = path]
    IN  [ed EXCEPT !.files = filesNow,
                   !.currentFile = file,
                   !.value = file.content,
                   !.isDirty = FALSE,
                   !.saveTimeout = TRUE]

\* openFile(file), file an entry of the file tree: a dirty current file is
\* saved first (saveCurrentFile is called and not awaited).
openFile ==
    /\ budget > 0
    /\ Saving(editor) => \E i \in SaveIds : saveTasks[i].pc = "idle"
    /\ \E k \in 1..Len(editor.files) :
        editor' = AfterOpen(editor, editor.files[k].path)
    /\ saveTasks' = SaveStarted(editor, saveTasks)
    /\ budget' = budget - 1
    /\ UNCHANGED <<dbVars, notEd>>

\* saveCurrentFile: await TrifleDB.storeContent(content, 'file')
save_storeContent(i) ==
    /\ saveTasks[i].pc = "storeContent"
    /\ LET hash == computeHash(saveTasks[i].content)
       IN  /\ content' = storeContentTx(hash, saveTasks[i].content, "file")
           /\ saveTasks' = [saveTasks EXCEPT ![i].newHash = hash,
                                             ![i].pc = "getTrifleData"]
    /\ UNCHANGED <<users, trifles, versions, nextVersionId, now, nUserIds,
                   nTrifleIds, pc, loc, last, budget, notEd, editor>>

\* saveCurrentFile: await TrifleDB.getTrifleData(state.trifleId), then the
\* hash of the current file is set in the data read.
save_getTrifleData(i) ==
    /\ saveTasks[i].pc = "getTrifleData"
    /\ LET data == getContent(PointerGet(trifles, editor.trifleId).current_hash)
       IN  saveTasks' = [saveTasks EXCEPT
                ![i].trifleData = SetFileHash(data, editor.currentFile.path,
                                              saveTasks[i].newHash),
                ![i].pc = "updateTrifle_getTrifle"]
    /\ UNCHANGED <<dbVars, notEd, budget, editor>>

\* saveCurrentFile: await TrifleDB.updateTrifle(...), its getTrifle
save_updateTrifle_getTrifle(i) ==
    /\ saveTasks[i].pc = "updateTrifle_getTrifle"
    /\ saveTasks' = [saveTasks EXCEPT
            ![i].ptr = PointerGet(trifles, editor.trifleId),
            ![i].pc = "updateTrifle_storeContent"]
    /\ UNCHANGED <<dbVars, notEd, budget, editor>>

\* updateTrifle: storeContent(trifleData, 'trifle')
save_updateTrifle_storeContent(i) ==
    /\ saveTasks[i].pc = "updateTrifle_storeContent"
    /\ LET hash == computeHash(saveTasks[i].trifleData)
       IN  /\ content' = storeContentTx(hash, saveTasks[i].trifleData, "trifle")
           /\ saveTasks' = [saveTasks EXCEPT
                    ![i].ptr = UpdatedPointer(saveTasks[i].ptr, hash, now),
                    ![i].pc = "updateTrifle_put"]
    /\ UNCHANGED <<users, trifles, versions, nextVersionId, now, nUserIds,
                   nTrifleIds, pc, loc, last, budget, notEd, editor>>

\* updateTrifle: store.put(trifle); saveCurrentFile then records the hash
\* and clears isDirty.
save_updateTrifle_put(i) ==
    /\ saveTasks[i].pc = "updateTrifle_put"
    /\ trifles' = PointerPut(trifles, saveTasks[i].ptr)
    /\ editor' = [editor EXCEPT !.currentFile.hash = saveTasks[i].newHash,
                                !.isDirty = FALSE]
    /\ saveTasks' = [saveTasks EXCEPT ![i] = NoSave]
    /\ UNCHANGED <<content, users, versions, nextVersionId, now, nUserIds,
                   nTrifleIds, pc, loc, last, budget, notEd>>

(***************************************************************************)
(* The other operations of the editor page that rewrite the trifle data:   *)
(* createFile, deleteFile, saveTitle of editTrifleTitle and                *)
(* syncFilesFromWorker. Each reads the data blob, changes its copy and     *)
(* hands it to updateTrifle; each is started once at most.                 *)
(***************************************************************************)
RmwOps == {"createFile", "deleteFile", "saveTitle", "syncFiles"}

NoTask == [pc |-> "idle", path |-> "", content |-> Null, name |-> "",
           hash |-> "", trifleData |-> Null, ptr |-> NoPtr]

\* The file the user creates, the title typed and the file the program
\* has written.
NewFilePath == "new.py"

NewTitle == "b"

WorkerFile == [path |-> "out.txt", content |-> Str("out\n")]

\* The trifle data with its file list replaced.
WithFiles(data, files) ==
    Obj([j \in 1..Len(data.kv) |->
            IF data.kv[j][1] = "files" THEN <<"files", Arr(files)>> ELSE data.kv[j]])

\* trifleData.files.push({ path, hash })
PushFile(data, path, hash) ==
    WithFiles(data, Append(Field(data.kv, "files").items,
                           Obj(<< <<"path", Str(path)>>, <<"hash", Str(hash)>> >>)))

\* trifleData.files = trifleData.files.filter(f => f.path !== file.path)
RemoveFile(data, path) ==
    LET Other(f) == Field(f.kv, "path") # Str(path)
    IN  WithFiles(data, SelectSeq(Field(data.kv, "files").items, Other))

\* trifleData.name = newTitle
SetName(data, name) ==
    Obj([j \in 1..Len(data.kv) |->
            IF data.kv[j][1] = "name" THEN <<"name", Str(name)>> ELSE data.kv[j]])

\* The file list has an entry for the path.
HasFile(data, path) ==
    \E i \in 1..Len(Field(data.kv, "files").items) :
        Field(Field(data.kv, "files").items[i].kv, "path") = Str(path)

\* state.files.filter(f => f.path !== file.path)
WithoutFile(files, path) ==
    LET Other(f) == f.path # path
    IN  SelectSeq(files, Other)

\* createFile(path): the New File button.
createFile ==
    /\ budget > 0
    /\ editor.tasks["createFile"].pc = "idle"
    /\ editor' = [editor EXCEPT !.tasks["createFile"] =
            [NoTask EXCEPT !.pc = "storeContent", !.path = NewFilePath,
                           !.content = Str("")]]
    /\ budget' = budget - 1
    /\ UNCHANGED <<dbVars, notEd, saveTasks>>

\* deleteFile(file), confirmed: the Delete button of a file tree entry.
deleteFile ==
    /\ budget > 0
    /\ editor.tasks["deleteFile"].pc = "idle"
    /\ \E k \in 1..Len(editor.files) :
        editor' = [editor EXCEPT !.tasks["deleteFile"] =
            [NoTask EXCEPT !.pc = "getTrifleData", !.path = editor.files[k].path]]
    /\ budget' = budget - 1
    /\ UNCHANGED <<dbVars, notEd, saveTasks>>

\* saveTitle with a new title.
saveTitle ==
    /\ budget > 0
    /\ editor.tasks["saveTitle"].pc = "idle"
    /\ editor' = [editor EXCEPT !.tasks["saveTitle"] =
            [NoTask EXCEPT !.pc = "getTrifleData", !.name = NewTitle]]
    /\ budget' = budget - 1
    /\ UNCHANGED <<dbVars, notEd, saveTasks>>

\* 'files-changed' after a run: syncFilesFromWorker(workerFiles). The files
\* the program has not written have the content the page has and are
\* passed over; the program has written WorkerFile.
syncFilesFromWorker ==
    /\ budget > 0
    /\ editor.tasks["syncFiles"].pc = "idle"
    /\ editor' = [editor EXCEPT !.tasks["syncFiles"] =
            [NoTask EXCEPT !.pc = "getTrifleData", !.path = WorkerFile.path,
                           !.content = WorkerFile.content]]
    /\ budget' = budget - 1
    /\ UNCHANGED <<dbVars, notEd, saveTasks>>

\* await TrifleDB.getTrifleData(state.trifleId), and what the operation
\* then does to the data read.
rmw_getTrifleData(op) ==
    /\ editor.tasks[op].pc = "getTrifleData"
    /\ LET task == editor.tasks[op]
           data == getContent(PointerGet(trifles, editor.trifleId).current_hash)
       IN  editor' = [editor EXCEPT !.tasks[op] =
            CASE op = "createFile" ->
                    [task EXCEPT !.trifleData = PushFile(data, task.path, task.hash),
                                 !.pc = "updateTrifle_getTrifle"]
              [] op = "deleteFile" ->
                    [task EXCEPT !.trifleData = RemoveFile(data, task.path),
                                 !.pc = "updateTrifle_getTrifle"]
              [] op = "saveTitle" ->
                    [task EXCEPT !.trifleData = SetName(data, task.name),
                                 !.pc = "updateTrifle_getTrifle"]
              [] op = "syncFiles" ->
                    [task EXCEPT !.trifleData = data, !.pc = "storeContent"]]
    /\ UNCHANGED <<dbVars, notEd, saveTasks, budget>>

\* await TrifleDB.storeContent(content, 'file'): the first step of
\* createFile; in syncFilesFromWorker the step after the data was read,
\* followed by the change of the data read and of state.files.
rmw_storeContent(op) ==
    /\ editor.tasks[op].pc = "storeContent"
    /\ LET task == editor.tasks[op]
           hash == computeHash(task.content)
           local == [path |-> task.path, content |-> task.content, hash |-> hash]
       IN  /\ content' = storeContentTx(hash, task.content, "file")
           /\ IF op = "createFile"
              THEN editor' = [editor EXCEPT !.tasks[op] =
                        [task EXCEPT !.hash = hash, !.pc = "getTrifleData"]]
              ELSE editor' = [editor EXCEPT
                        !.tasks[op] =
                            [task EXCEPT
                                !.hash = hash,
                                !.trifleData =
                                    IF HasFile(task.trifleData, task.path)
                                    THEN SetFileHash(task.trifleData, task.path, hash)
                                    ELSE PushFile(task.trifleData, task.path, hash),
                                !.pc = "updateTrifle_getTrifle"],
                        !.files =
                            IF \E k \in 1..Len(editor.files) : editor.files[k].path = task.path
                            THEN [k \in 1..Len(editor.files) |->
                                    IF editor.files[k].path = task.path
                                    THEN local ELSE editor.files[k]]
                            ELSE Append(editor.files, local),
                        !.currentFile =
                            IF @ # Null /\ @.path = task.path THEN local ELSE @]
    /\ UNCHANGED <<users, trifles, versions, nextVersionId, now, nUserIds,
                   nTrifleIds, pc, loc, last, budget, notEd, saveTasks>>

\* updateTrifle: getTrifle(trifleId)
rmw_updateTrifle_getTrifle(op) ==
    /\ editor.tasks[op].pc = "updateTrifle_getTrifle"
    /\ editor' = [editor EXCEPT
            !.tasks[op].ptr = PointerGet(trifles, editor.trifleId),
            !.tasks[op].pc = "updateTrifle_storeContent"]
    /\ UNCHANGED <<dbVars, notEd, saveTasks, budget>>

\* updateTrifle: storeContent(trifleData, 'trifle')
rmw_updateTrifle_storeContent(op) ==
    /\ editor.tasks[op].pc = "updateTrifle_storeContent"
    /\ LET hash == computeHash(editor.tasks[op].trifleData)
       IN  /\ content' = storeContentTx(hash, editor.tasks[op].trifleData, "trifle")
           /\ editor' = [editor EXCEPT
                    !.tasks[op].ptr = UpdatedPointer(editor.tasks[op].ptr, hash, now),
                    !.tasks[op].pc = "updateTrifle_put"]
    /\ UNCHANGED <<users, trifles, versions, nextVersionId, now, nUserIds,
                   nTrifleIds, pc, loc, last, budget, notEd, saveTasks>>

\* The page once deleteFile has removed the file from state.files: when it
\* was the current one, the first file left is opened, or the editor is
\* emptied when none is left.
AfterDelete(ed, path) ==
    LET left == [ed EXCEPT !.files = WithoutFile(@, path)]
    IN  IF ed.currentFile # Null /\ ed.currentFile.path = path
        THEN IF left.files # <<>>
             THEN AfterOpen([left EXCEPT !.currentFile = Null], left.files[1].path)
             ELSE [left EXCEPT !.currentFile = Null, !.value = Str(""),
                               !.isDirty = TRUE, !.saveTimeout = TRUE]
        ELSE left

\* updateTrifle: store.put(trifle), and what the operation does once
\* updateTrifle has resolved: createFile adds the file to state.files and
\* opens it, deleteFile removes it from state.files.
rmw_updateTrifle_put(op) ==
    /\ editor.tasks[op].pc = "updateTrifle_put"
    /\ trifles' = PointerPut(trifles, editor.tasks[op].ptr)
    /\ LET task == editor.tasks[op]
           ended == [editor EXCEPT !.tasks[op].pc = "done"]
           newFile == [path |-> task.path, content |-> task.content,
                       hash |-> task.hash]
       IN  CASE op = "createFile" ->
                    /\ Saving(editor) => \E i \in SaveIds : saveTasks[i].pc = "idle"
                    /\ editor' = AfterOpen([ended EXCEPT !.files = Append(@, newFile)],
                                           task.path)
                    /\ saveTasks' = SaveStarted(editor, saveTasks)
             [] op = "deleteFile" ->
                    /\ editor' = AfterDelete(ended, task.path)
                    /\ saveTasks' = saveTasks
             [] OTHER ->
                    /\ editor' = ended
                    /\ saveTasks' = saveTasks
    /\ UNCHANGED <<content, users, versions, nextVersionId, now, nUserIds,
                   nTrifleIds, pc, loc, last, budget, notEd>>

(***************************************************************************)
(* The service worker (sw.js): its install, activate and fetch listeners,  *)
(* one step per event and per awaited cache or network operation.          *)
(***************************************************************************)
CACHE_NAME == "trifling-v114"

\* A cache an earlier version of the worker left.
OldCacheName == "trifling-v113"

CacheNames == {CACHE_NAME, OldCacheName}

Origin == "https://trifling.org"

CdnOrigin == "https://cdnjs.cloudflare.com"

Url(origin, pathname, search) ==
    [origin |-> origin, pathname |-> pathname, search |-> search]

STATIC_CACHE ==
    {Url(Origin, path, "") :
        path \in {"/", "/index.html", "/editor.html", "/profile.html", "/data.html",
                  "/about.html", "/css/app.css", "/js/app.js", "/js/editor.js",
                  "/js/profile.js", "/js/avatar.js", "/js/avatar-editor.js",
                  "/js/data.js", "/js/db.js", "/js/namegen.js",
                  "/js/notifications.js", "/js/worker.js", "/js/python-env.js",
                  "/js/turtle.js", "/js/terminal.js", "/js/sync-kv.js"}}

CDN_CACHE ==
    {Url(CdnOrigin, "/ajax/libs/ace/1.32.2/ace.js", ""),
     Url("https://cdn.jsdelivr.net", "/pyodide/v0.28.3/full/pyodide.js", "")}

\* The requests pages make.
Requests ==
    {[method |-> "GET", url |-> Url(Origin, "/editor.html", "?id=1"), mode |-> "navigate"],
     [method |-> "GET", url |-> Url(Origin, "/docs/turtle.html", ""), mode |-> "navigate"],
     [method |-> "GET", url |-> Url(Origin, "/api/kv/profile", ""), mode |-> "cors"],
     [method |-> "GET", url |-> Url(Origin, "/api/kv/profile", "?t=1"), mode |-> "cors"],
     [method |-> "PUT", url |-> Url(Origin, "/api/kv/profile", ""), mode |-> "cors"],
     [method |-> "GET", url |-> Url(Origin, "/apidocs.html", ""), mode |-> "navigate"]}

\* The fetch events that may be in progress at once.
FetchIds == {1, 2}

NoRequest == [method |-> "", url |-> Url("", "", ""), mode |-> ""]

NoFetch == [pc |-> "idle", request |-> NoRequest]

\* url.pathname.startsWith('/api/')
IsApi_Never(url) == FALSE

IsApi(url) == StartsWith(url.pathname, "/api/")

\* caches.match(request): a response for that URL in any cache
CachesMatch(url) == \E name \in CacheNames : url \in swCaches[name]

\* new URL(url.pathname, url.origin)
WithoutQuery(url) == Url(url.origin, url.pathname, "")

Answered(request, source) ==
    [method |-> request.method, url |-> request.url, source |-> source]

\* install: cache.addAll(STATIC_CACHE), and cache.add of each CDN resource,
\* which may fail one by one.
sw_install ==
    /\ budget > 0
    /\ \E cdn \in SUBSET CDN_CACHE :
        swCaches' = [swCaches EXCEPT ![CACHE_NAME] = @ \cup STATIC_CACHE \cup cdn]
    /\ budget' = budget - 1
    /\ UNCHANGED <<dbVars, notSw, swFetches, swLast>>

\* activate: every cache but CACHE_NAME is deleted.
sw_activate ==
    /\ budget > 0
    /\ swCaches' = [name \in CacheNames |->
                        IF name # CACHE_NAME THEN {} ELSE swCaches[name]]
    /\ budget' = budget - 1
    /\ UNCHANGED <<dbVars, notSw, swFetches, swLast>>

\* fetch: requests that are not GET and requests to /api/ are left to the
\* browser; the others are answered by the worker.
sw_fetch ==
    /\ budget > 0
    /\ \E request \in Requests :
        IF request.method # "GET" \/ IsApi(request.url)
        THEN /\ swLast' = Answered(request, "browser")
             /\ UNCHANGED swFetches
        ELSE \E i \in FetchIds :
             /\ swFetches[i].pc = "idle"
             /\ swFetches' = [swFetches EXCEPT ![i] =
                    [pc |-> "match", request |-> request]]
             /\ UNCHANGED swLast
    /\ budget' = budget - 1
    /\ UNCHANGED <<dbVars, notSw, swCaches>>

\* caches.match(event.request)
sw_match(i) ==
    /\ swFetches[i].pc = "match"
    /\ LET request == swFetches[i].request
       IN  IF CachesMatch(request.url)
           THEN /\ swLast' = Answered(request, "cache")
                /\ swFetches' = [swFetches EXCEPT ![i] = NoFetch]
           ELSE /\ swFetches' = [swFetches EXCEPT ![i].pc =
                        IF request.url.search # "" THEN "matchNoQuery" ELSE "network"]
                /\ UNCHANGED swLast
    /\ UNCHANGED <<dbVars, notSw, swCaches, budget>>

\* caches.match(urlWithoutQuery)
sw_matchNoQuery(i) ==
    /\ swFetches[i].pc = "matchNoQuery"
    /\ LET request == swFetches[i].request
       IN  IF CachesMatch(WithoutQuery(request.url))
           THEN /\ swLast' = Answered(request, "cache")
                /\ swFetches' = [swFetches EXCEPT ![i] = NoFetch]
           ELSE /\ swFetches' = [swFetches EXCEPT ![i].pc = "network"]
                /\ UNCHANGED swLast
    /\ UNCHANGED <<dbVars, notSw, swCaches, budget>>

\* fetchFromNetwork: the response of fetch(event.request) is returned; a
\* response with status 200 is also put into the cache, unless the request
\* is to /api/. A failed fetch gives the offline page to navigations.
sw_network(i) ==
    /\ swFetches[i].pc = "network"
    /\ LET request == swFetches[i].request
       IN  \E outcome \in {"200", "404", "failed"} :
            /\ swLast' = Answered(request,
                    IF outcome # "failed" THEN "network"
                    ELSE IF request.mode = "navigate" THEN "offline" ELSE "error")
            /\ swFetches' = [swFetches EXCEPT ![i] =
                    IF outcome = "200" /\ ~IsApi(request.url)
                    THEN [@ EXCEPT !.pc = "put"]
                    ELSE NoFetch]
    /\ UNCHANGED <<dbVars, notSw, swCaches, budget>>

\* caches.open(CACHE_NAME).then(cache => cache.put(event.request, ...))
sw_put(i) ==
    /\ swFetches[i].pc = "put"
    /\ swCaches' = [swCaches EXCEPT ![CACHE_NAME] = @ \cup {swFetches[i].request.url}]
    /\ swFetches' = [swFetches EXCEPT ![i] = NoFetch]
    /\ UNCHANGED <<dbVars, notSw, swLast, budget>>

(***************************************************************************)
(* Trifle imports in the Python worker: handleLoadFiles of worker.js,      *)
(* setImportContext, preloadTrifle and _getTrifleCode of python-env.js,    *)
(* and the import hook TriflingMineImporter.                               *)
(***************************************************************************)
\* The trifles a load-files message may list: two of one name, one without
\* code, one that is alone with its name.
TriflePool ==
    {[id |-> "t1", name |-> "lib", code |-> "def f(): return 1\n"],
     [id |-> "t2", name |-> "lib", code |-> "def f(): return 2\n"],
     [id |-> "t3", name |-> "util", code |-> "def g(): return 3\n"],
     [id |-> "t4", name |-> "empty", code |-> ""]}

\* The names a program may import as trifling.mine.<name>.
ImportNames == {"lib", "util", "empty", "nonexistent"}

CurrentTrifleIds == {"t1", "t3", "t9"}

MultipleError(name) ==
    "Multiple trifles named '" \o name \o "' found. Please rename to make unique."

SelfImportError(name) ==
    "Cannot import from current trifle '" \o name \o "' (self-import not allowed)"

NotFoundError(name) ==
    "Trifle '" \o name
        \o "' not found. Make sure the trifle exists and is owned by the current user."

NoCodeError(name) == "Trifle '" \o name \o "' has no code"

\* JSON.stringify({error}) and JSON.stringify({code, id}), as json.loads reads them
ErrorResult(error) == [error |-> error, code |-> "", id |-> ""]

CodeResult(code, id) == [error |-> "", code |-> code, id |-> id]

NoLoadMsg == [available |-> {}, trifleId |-> "", listed |-> FALSE]

NoImport == [name |-> "", outcome |-> "", code |-> "", error |-> ""]

\* What handleLoadFiles preloads for the names of availableTrifles.
Preloaded(available, trifleId) ==
    LET names == {t.name : t \in available}
        named(name) == {t \in available : t.name = name}
    IN  [name \in names |->
            IF Cardinality(named(name)) > 1
            THEN ErrorResult(MultipleError(name))
            ELSE LET trifle == CHOOSE t \in named(name) : TRUE
                 IN  IF trifle.id = trifleId
                     THEN ErrorResult(SelfImportError(name))
                     ELSE CodeResult(trifle.code, trifle.id)]

\* self._getTrifleCode(trifleName)
getTrifleCode(trifleName) ==
    IF trifleName \in DOMAIN importEnv.loadedTrifles
    THEN importEnv.loadedTrifles[trifleName]
    ELSE ErrorResult(NotFoundError(trifleName))

\* The message 'load-files': setImportContext clears loadedTrifles, then
\* every name of availableTrifles, when the message has them, is preloaded.
handleLoadFiles ==
    /\ budget > 0
    /\ \E trifleId \in CurrentTrifleIds, listed \in BOOLEAN,
          available \in SUBSET TriflePool :
        /\ ~listed => available = {}
        /\ importEnv' = [importEnv EXCEPT
                !.currentTrifleId = trifleId,
                !.loadedTrifles = Preloaded(available, trifleId),
                !.loaded = TRUE]
        /\ loadMsg' = [available |-> available, trifleId |-> trifleId,
                       listed |-> listed]
    /\ importResult' = NoImport
    /\ budget' = budget - 1
    /\ UNCHANGED <<dbVars, notImp>>

\* The running program executes "import trifling.mine.<name>": a module
\* that is in sys.modules is taken from there; else exec_module asks
\* _getTrifleCode and executes the code in the new module, which stays in
\* sys.modules unless an ImportError is raised.
import_mine ==
    /\ budget > 0
    /\ importEnv.loaded
    /\ \E name \in ImportNames :
        IF name \in DOMAIN importEnv.sysModules
        THEN /\ importResult' = [name |-> name, outcome |-> "code",
                                 code |-> importEnv.sysModules[name], error |-> ""]
             /\ UNCHANGED importEnv
        ELSE LET result == getTrifleCode(name)
                 error == IF result.error # "" THEN result.error
                          ELSE IF result.code = "" THEN NoCodeError(name)
                          ELSE ""
             IN  IF error # ""
                 THEN /\ importResult' = [name |-> name, outcome |-> "ImportError",
                                          code |-> "", error |-> error]
                      /\ UNCHANGED importEnv
                 ELSE /\ importResult' = [name |-> name, outcome |-> "code",
                                          code |-> result.code, error |-> ""]
                      /\ importEnv' = [importEnv EXCEPT !.sysModules =
                            [n \in DOMAIN @ \cup {name} |->
                                IF n = name THEN result.code ELSE @[n]]]
    /\ budget' = budget - 1
    /\ UNCHANGED <<dbVars, notImp, loadMsg>>

(***************************************************************************)
(* input(): _input_async and handleInputResponse in the worker, the        *)
(* 'input-request' case of the page (handleInputRequest of the editor,     *)
(* CodeSnippet.handleWorkerMessage of a snippet), and Terminal.requestInput *)
(* and submitInput.                                                        *)
(***************************************************************************)
\* The pages that run Python: the editor and a documentation snippet.
Hosts == {"editor", "snippet"}

Prompts == {"What's your name? ", "How old are you? "}

\* The lines the user may type.
InputLines == {"Ada", "36"}

InputRequest(prompt) == [type |-> "input-request", prompt |-> prompt, value |-> ""]

InputResponse(value) == [type |-> "input-response", prompt |-> "", value |-> value]

\* The program calls input(prompt): 'input-request' is sent and the run
\* waits on the promise of _getInputValue, whose resolve is inputResolver.
py_input ==
    /\ budget > 0
    /\ pyRun.state = "running"
    /\ \E prompt \in Prompts :
        channels' = [channels EXCEPT !.toMain = Append(@, InputRequest(prompt))]
    /\ pyRun' = [pyRun EXCEPT !.state = "awaitingInput", !.inputResolver = TRUE]
    /\ budget' = budget - 1
    /\ UNCHANGED <<dbVars, notInp, term>>

\* The page receives 'input-request'. The editor awaits
\* terminal.requestInput(prompt) in handleInputRequest; the snippet calls
\* terminal.requestInput(prompt, callback). requestInput takes the prompt
\* alone and returns a promise, whose resolve it keeps.
page_inputRequest ==
    /\ channels.toMain # <<>>
    /\ Head(channels.toMain).type = "input-request"
    /\ channels' = [channels EXCEPT !.toMain = Tail(@)]
    /\ term' = [term EXCEPT
            !.isWaitingForInput = TRUE,
            !.inputResolver = TRUE,
            !.prompt = Head(channels.toMain).prompt,
            !.awaited = (term.host = "editor")]
    /\ UNCHANGED <<dbVars, notInp, pyRun, budget>>

\* The user types a line and presses Enter: submitInput resolves the
\* promise of requestInput; handleInputRequest, when it awaits that
\* promise, posts 'input-response' with the value.
submitInput ==
    /\ term.isWaitingForInput
    /\ term.inputResolver
    /\ \E value \in InputLines :
        /\ term' = [term EXCEPT !.isWaitingForInput = FALSE,
                                !.inputResolver = FALSE,
                                !.awaited = FALSE,
                                !.submitted = Append(@, value)]
        /\ channels' = [channels EXCEPT !.toWorker =
                IF term.awaited THEN Append(@, InputResponse(value)) ELSE @]
    /\ UNCHANGED <<dbVars, notInp, pyRun, budget>>

\* The worker receives 'input-response': handleInputResponse resolves
\* inputResolver, when there is one, and the run resumes with the value.
handleInputResponse ==
    /\ channels.toWorker # <<>>
    /\ Head(channels.toWorker).type = "input-response"
    /\ channels' = [channels EXCEPT !.toWorker = Tail(@)]
    /\ pyRun' = IF pyRun.inputResolver
                THEN [pyRun EXCEPT !.state = "running", !.inputResolver = FALSE,
                                   !.returned = Append(@, Head(channels.toWorker).value)]
                ELSE pyRun
    /\ UNCHANGED <<dbVars, notInp, term, budget>>

(***************************************************************************)
(* Turtle graphics: FrameManager of turtle.js and the Turtle methods that  *)
(* queue operations through addFrame. Each 'turtle-method' message of the  *)
(* worker is one call of a Turtle method on the page.                      *)
(***************************************************************************)
\* The Turtle methods modelled; forward and showturtle queue an operation
\* that counts as an animation frame, penup, pendown and end_fill one that
\* does not.
TurtleMethods == {"forward", "showturtle", "penup", "pendown", "begin_fill", "end_fill"}

\* The values tracer() is called with.
TracerValues == {0, 1, 2}

\* A queued operation: the n-th one queued since the program started.
Frame(n, method) == [n |-> n, method |-> method]

\* FrameManager.addFrame(method, countAsFrame) on frame manager fm.
addFrame(fm, frame, countAsFrame) ==
    LET count == IF countAsFrame THEN fm._frameCount + 1 ELSE fm._frameCount
        shouldUpdate == fm._buffer # 0 /\ count = fm._buffer
    IN  [fm EXCEPT !._frameCount = count,
                   !._frames = Append(@, frame),
                   !._updateScheduled = @ \/ shouldUpdate]

\* The operations a Turtle method queues, with their countAsFrame, given
\* how many have been queued before. forward is taken at a distance of
\* one animation frame.
FramesOf(method, n, filling) ==
    CASE method = "forward" ->
            IF filling
            THEN <<<<Frame(n + 1, "lineTo"), FALSE>>, <<Frame(n + 2, "forward"), TRUE>>>>
            ELSE <<<<Frame(n + 1, "forward"), TRUE>>>>
      [] method = "showturtle" -> <<<<Frame(n + 1, "showturtle"), TRUE>>>>
      [] method = "penup" -> <<<<Frame(n + 1, "penup"), FALSE>>>>
      [] method = "pendown" -> <<<<Frame(n + 1, "pendown"), FALSE>>>>
      [] method = "end_fill" ->
            IF filling THEN <<<<Frame(n + 1, "fill"), FALSE>>>> ELSE <<>>
      [] OTHER -> <<>>

RECURSIVE addFrames(_, _)
addFrames(fm, calls) ==
    IF calls = <<>> THEN fm
    ELSE addFrames(addFrame(fm, Head(calls)[1], Head(calls)[2]), Tail(calls))

\* The frame manager as constructed and as reset() leaves it.
NewFrameManager ==
    [_frames |-> <<>>, _frameCount |-> 0, _buffer |-> 1, _updateScheduled |-> FALSE]

\* 'turtle-method': the page calls the method on the turtle.
turtle_method ==
    /\ budget > 0
    /\ ~turtleRun.complete
    /\ ~frameManager._updateScheduled
    /\ \E method \in TurtleMethods :
        LET calls == FramesOf(method, Len(turtleRun.queued), turtleRun._filling)
        IN  /\ frameManager' = addFrames(frameManager, calls)
            /\ turtleRun' = [turtleRun EXCEPT
                    !._filling = IF method = "begin_fill" THEN TRUE
                                 ELSE IF method = "end_fill" THEN FALSE ELSE @,
                    !.queued = @ \o [i \in 1..Len(calls) |-> calls[i][1]]]
    /\ budget' = budget - 1
    /\ UNCHANGED <<dbVars, notTur, animationFrames>>

\* The promise callback addFrame scheduled: update() takes the queue and
\* hands it to requestAnimationFrame. It runs before any other message.
update ==
    /\ frameManager._updateScheduled
    /\ frameManager' = [frameManager EXCEPT !._updateScheduled = FALSE,
                                            !._frames = <<>>,
                                            !._frameCount = 0]
    /\ animationFrames' = Append(animationFrames, frameManager._frames)
    /\ UNCHANGED <<dbVars, notTur, turtleRun, budget>>

\* The animation frame of the oldest update(): its operations run in order.
animationFrame ==
    /\ animationFrames # <<>>
    /\ ~frameManager._updateScheduled
    /\ turtleRun' = [turtleRun EXCEPT !.executed = @ \o Head(animationFrames)]
    /\ animationFrames' = Tail(animationFrames)
    /\ UNCHANGED <<dbVars, notTur, frameManager, budget>>

\* 'turtle-tracer': Screen.tracer(n) calls frameBuffer(n), which updates at
\* once when the count has reached the new buffer.
tracer ==
    /\ budget > 0
    /\ ~turtleRun.complete
    /\ ~frameManager._updateScheduled
    /\ \E n \in TracerValues :
        /\ IF n # 0 /\ n <= frameManager._frameCount
           THEN /\ frameManager' = [frameManager EXCEPT !._buffer = n,
                                                        !._frames = <<>>,
                                                        !._frameCount = 0]
                /\ animationFrames' = Append(animationFrames, frameManager._frames)
           ELSE /\ frameManager' = [frameManager EXCEPT !._buffer = n]
                /\ animationFrames' = animationFrames
        /\ turtleRun' = [turtleRun EXCEPT !.tracerCalled = TRUE]
    /\ budget' = budget - 1
    /\ UNCHANGED <<dbVars, notTur>>

\* 'turtle-reset': the reset of the turtle API resets the frame manager and
\* the default turtle.
turtle_reset ==
    /\ budget > 0
    /\ ~turtleRun.complete
    /\ ~frameManager._updateScheduled
    /\ frameManager' = NewFrameManager
    /\ turtleRun' = [turtleRun EXCEPT !._filling = FALSE, !.resetCalled = TRUE]
    /\ budget' = budget - 1
    /\ UNCHANGED <<dbVars, notTur, animationFrames>>

\* 'complete': the program has ended; the page only updates its Run button.
turtle_complete ==
    /\ ~turtleRun.complete
    /\ ~frameManager._updateScheduled
    /\ turtleRun' = [turtleRun EXCEPT !.complete = TRUE]
    /\ UNCHANGED <<dbVars, notTur, frameManager, animationFrames, budget>>

(***************************************************************************)
(* The avatar editor of the profile page: the shape list and the handlers  *)
(* that add, duplicate and remove shapes. A shape is its id; its place on  *)
(* the canvas is kept only as whether the dragged shape lies completely    *)
(* outside it.                                                             *)
(***************************************************************************)
MAX_SHAPES == 200

\* selectedShapeId, duplicatedShapeId and originalShapeState when null.
NoShape == -1

\* undoShapes when null.
NoUndo == <<NoShape>>

ShapeIds(shapes) == {shapes[i] : i \in 1..Len(shapes)}

\* getNextShapeId: the lowest id no shape of the list has.
getNextShapeId(shapes) ==
    CHOOSE n \in 0..Len(shapes) :
        /\ n \notin ShapeIds(shapes)
        /\ \A m \in 0..(n - 1) : m \in ShapeIds(shapes)

\* shapes.findIndex(s => s.id === id), 0 for -1.
findIndex(shapes, id) ==
    IF id \in ShapeIds(shapes)
    THEN CHOOSE i \in 1..Len(shapes) :
            shapes[i] = id /\ \A j \in 1..(i - 1) : shapes[j] # id
    ELSE 0

\* shapes.splice(index, 1) at the index of id, when there is one.
splice(shapes, id) ==
    LET index == findIndex(shapes, id)
    IN  IF index = 0 THEN shapes
        ELSE SubSeq(shapes, 1, index - 1) \o SubSeq(shapes, index + 1, Len(shapes))

\* The shape a mousedown on the canvas hits: the background, or the
\* bottom or the top shape of the list.
ClickTargets(shapes) ==
    {NoShape} \cup (IF shapes = <<>> THEN {} ELSE {shapes[1], shapes[Len(shapes)]})

NoDrag ==
    [isDragging |-> FALSE, isDuplicating |-> FALSE, duplicatedShapeId |-> NoShape,
     originalShapeState |-> NoShape, outOfBounds |-> FALSE]

\* Click on a palette item: the shape is added at the centre of the canvas.
palette_click ==
    /\ budget > 0
    /\ IF Len(avatar.shapes) >= MAX_SHAPES
       THEN avatar' = avatar
       ELSE avatar' = [avatar EXCEPT
                !.shapes = Append(@, getNextShapeId(avatar.shapes)),
                !.selectedShapeId = getNextShapeId(avatar.shapes),
                !.undoShapes = NoUndo]
    /\ budget' = budget - 1
    /\ UNCHANGED <<dbVars, notAv, drag>>

\* Drop of a palette item, inside the canvas or not.
palette_drop ==
    /\ budget > 0
    /\ \E inside \in BOOLEAN :
        IF ~inside \/ Len(avatar.shapes) >= MAX_SHAPES
        THEN avatar' = avatar
        ELSE avatar' = [avatar EXCEPT
                !.shapes = Append(@, getNextShapeId(avatar.shapes)),
                !.selectedShapeId = getNextShapeId(avatar.shapes),
                !.undoShapes = NoUndo]
    /\ budget' = budget - 1
    /\ UNCHANGED <<dbVars, notAv, drag>>

\* mousedown on the canvas: on a shape it selects it and starts dragging
\* it, on the background it deselects.
mousedown ==
    /\ budget > 0
    /\ \E clicked \in ClickTargets(avatar.shapes) :
        IF clicked # NoShape
        THEN /\ avatar' = [avatar EXCEPT !.selectedShapeId = clicked]
             /\ drag' = [drag EXCEPT !.isDragging = TRUE,
                                     !.originalShapeState = clicked,
                                     !.outOfBounds = FALSE]
        ELSE /\ avatar' = [avatar EXCEPT !.selectedShapeId = NoShape]
             /\ drag' = drag
    /\ budget' = budget - 1
    /\ UNCHANGED <<dbVars, notAv>>

\* mousemove while dragging: pressing option creates a duplicate of the
\* original and drags it, releasing option removes the duplicate; the
\* selected shape then moves with the mouse.
mousemove ==
    /\ budget > 0
    /\ drag.isDragging
    /\ avatar.selectedShapeId # NoShape
    /\ \E optionPressed \in BOOLEAN, out \in BOOLEAN :
        LET duplicate == getNextShapeId(avatar.shapes)
            shapes ==
                IF optionPressed /\ ~drag.isDuplicating
                THEN Append(avatar.shapes, duplicate)
                ELSE IF ~optionPressed /\ drag.isDuplicating
                THEN splice(avatar.shapes, drag.duplicatedShapeId)
                ELSE avatar.shapes
            selected ==
                IF optionPressed /\ ~drag.isDuplicating THEN duplicate
                ELSE IF ~optionPressed /\ drag.isDuplicating
                THEN drag.originalShapeState
                ELSE avatar.selectedShapeId
        IN  /\ avatar' = [avatar EXCEPT !.shapes = shapes,
                                        !.selectedShapeId = selected]
            /\ drag' = [drag EXCEPT
                    !.isDuplicating = optionPressed,
                    !.duplicatedShapeId =
                        IF optionPressed /\ ~drag.isDuplicating THEN duplicate
                        ELSE IF ~optionPressed /\ drag.isDuplicating THEN NoShape
                        ELSE @,
                    !.outOfBounds =
                        IF selected \in ShapeIds(shapes) THEN out ELSE @]
    /\ budget' = budget - 1
    /\ UNCHANGED <<dbVars, notAv>>

\* mouseup ends the drag: a duplicate stays, and a selected shape that
\* lies completely outside the canvas is deleted.
mouseup ==
    /\ budget > 0
    /\ IF drag.isDragging
       THEN /\ avatar' =
                IF /\ avatar.selectedShapeId \in ShapeIds(avatar.shapes)
                   /\ drag.outOfBounds
                THEN [avatar EXCEPT
                        !.shapes = splice(@, avatar.selectedShapeId),
                        !.selectedShapeId = NoShape,
                        !.undoShapes = NoUndo]
                ELSE [avatar EXCEPT !.undoShapes = NoUndo]
            /\ drag' = NoDrag
       ELSE UNCHANGED <<avatar, drag>>
    /\ budget' = budget - 1
    /\ UNCHANGED <<dbVars, notAv>>

\* mouseleave cancels the drag: a duplicate is removed.
mouseleave ==
    /\ budget > 0
    /\ IF drag.isDragging
       THEN /\ avatar' =
                IF drag.isDuplicating
                THEN [avatar EXCEPT
                        !.shapes = splice(@, drag.duplicatedShapeId),
                        !.selectedShapeId = drag.originalShapeState]
                ELSE avatar
            /\ drag' = NoDrag
       ELSE UNCHANGED <<avatar, drag>>
    /\ budget' = budget - 1
    /\ UNCHANGED <<dbVars, notAv>>

\* The Delete button or key.
deleteSelectedShape ==
    /\ budget > 0
    /\ IF avatar.selectedShapeId \in ShapeIds(avatar.shapes)
       THEN avatar' = [avatar EXCEPT
                !.shapes = splice(@, avatar.selectedShapeId),
                !.selectedShapeId = NoShape,
                !.undoShapes = NoUndo]
       ELSE avatar' = avatar
    /\ budget' = budget - 1
    /\ UNCHANGED <<dbVars, notAv, drag>>

\* The Clear All button, which is Undo Clear after a clear.
handleClearOrUndo ==
    /\ budget > 0
    /\ IF avatar.undoShapes # NoUndo
       THEN avatar' = [avatar EXCEPT !.shapes = avatar.undoShapes,
                                     !.undoShapes = NoUndo,
                                     !.selectedShapeId = NoShape]
       ELSE IF avatar.shapes = <<>>
       THEN avatar' = avatar
       ELSE avatar' = [avatar EXCEPT !.undoShapes = avatar.shapes,
                                     !.shapes = <<>>,
                                     !.selectedShapeId = NoShape]
    /\ budget' = budget - 1
    /\ UNCHANGED <<dbVars, notAv, drag>>

(***************************************************************************)
(* Runnable snippets: CodeSnippet.run of snippet-runner.js and the shared  *)
(* worker's handleLoadFiles and handleRun. The Python code of a snippet is *)
(* kept as the names it assigns and the name it then reads.                *)
(***************************************************************************)
Snippets == {"s1", "s2"}

NoSnippet == "none"

\* The global names snippet code uses.
PyNames == {"x", "y"}

NoName == "none"

\* The code of a snippet: `defines = 1` for each name it defines, then
\* print(reads) when it reads one.
SnippetCodes ==
    {[defines |-> d, reads |-> r] :
        d \in {{}, {"x"}, {"y"}}, r \in PyNames \cup {NoName}}

NoCode == [defines |-> {}, reads |-> NoName]

\* What reading a name gives: the run that assigned it, or NameError.
NameError == -1

\* exec(code, globals()) of run number run: the globals afterwards.
ExecGlobals(globals, code, run) ==
    [n \in PyNames |-> IF n \in code.defines THEN run ELSE globals[n]]

\* No message has been handled by the page.
NoMessage == [type |-> "", from |-> NoSnippet, by |-> NoSnippet]

\* The worker as handleInit leaves it: no user name is defined.
NewGlobals == [n \in PyNames |-> NameError]

\* CodeSnippet.run: the snippet becomes the active one and posts
\* 'load-files' with its code as snippet.py, then 'run'.
snippet_run ==
    /\ budget > 0
    /\ \E snippet \in Snippets, code \in SnippetCodes :
        /\ snippet \notin snipPage.isRunning
        /\ snipPage' = [snipPage EXCEPT !.activeSnippet = snippet,
                                        !.isRunning = @ \cup {snippet}]
        /\ snipWorker' = [snipWorker EXCEPT !.inbox =
                @ \o <<[type |-> "load-files", code |-> code, snippet |-> snippet],
                       [type |-> "run", code |-> NoCode, snippet |-> snippet]>>]
    /\ budget' = budget - 1
    /\ UNCHANGED <<dbVars, notSnip, snipResult>>

\* The worker handles 'load-files': snippet.py is written.
snippet_loadFiles ==
    /\ snipWorker.inbox # <<>>
    /\ Head(snipWorker.inbox).type = "load-files"
    /\ snipWorker' = [snipWorker EXCEPT !.inbox = Tail(@),
                                        !.file = Head(snipWorker.inbox).code]
    /\ UNCHANGED <<dbVars, notSnip, snipPage, snipResult, budget>>

\* What handleRun sends for a run that read value: the text print wrote and
\* 'complete', or 'error' when the code raised NameError.  from is the
\* snippet whose run() posted the 'run' message.
RunMessages(code, value, from) ==
    IF code.reads = NoName THEN <<[type |-> "complete", from |-> from]>>
    ELSE IF value = NameError THEN <<[type |-> "error", from |-> from]>>
    ELSE <<[type |-> "stdout", from |-> from], [type |-> "complete", from |-> from]>>

\* The worker handles 'run': handleRun executes snippet.py with
\* exec(code, globals()) and sends 'complete'.
snippet_handleRun ==
    /\ snipWorker.inbox # <<>>
    /\ Head(snipWorker.inbox).type = "run"
    /\ LET run == snipWorker.runs + 1
           code == snipWorker.file
           after == ExecGlobals(snipWorker.globals, code, run)
       IN  /\ snipWorker' = [snipWorker EXCEPT !.inbox = Tail(@),
                                               !.globals = after,
                                               !.runs = run]
           /\ snipResult' = [run |-> run, code |-> code,
                             value |-> IF code.reads = NoName THEN NameError
                                       ELSE after[code.reads]]
           /\ snipPage' = [snipPage EXCEPT !.inbox =
                    @ \o RunMessages(code,
                                     IF code.reads = NoName THEN NameError
                                     ELSE after[code.reads],
                                     Head(snipWorker.inbox).snippet)]
    /\ UNCHANGED <<dbVars, notSnip, budget>>

\* sharedWorker.onmessage hands a message to the active snippet, if there
\* is one: [type, from, by] is the message and the snippet that handled it.
Routed(page) ==
    [type |-> Head(page.inbox).type, from |-> Head(page.inbox).from,
     by |-> page.activeSnippet]

\* The page receives 'stdout': the active snippet writes the text to its
\* terminal.
snippet_stdout ==
    /\ snipPage.inbox # <<>>
    /\ Head(snipPage.inbox).type = "stdout"
    /\ snipPage' = [snipPage EXCEPT !.inbox = Tail(@), !.handled = Routed(snipPage)]
    /\ UNCHANGED <<dbVars, notSnip, snipWorker, snipResult, budget>>

\* The page receives 'complete' or 'error' and hands it to the active snippet.
snippet_complete ==
    /\ snipPage.inbox # <<>>
    /\ Head(snipPage.inbox).type \in {"complete", "error"}
    /\ snipPage' = [snipPage EXCEPT
            !.inbox = Tail(@),
            !.handled = Routed(snipPage),
            !.isRunning = @ \ {snipPage.activeSnippet},
            !.activeSnippet = NoSnippet]
    /\ UNCHANGED <<dbVars, notSnip, snipWorker, snipResult, budget>>

(***************************************************************************)
(* The Python worker (worker.js).  It handles one message at a time; a     *)
(* handler runs until it returns or awaits.  An execution is a call of     *)
(* pyodide.runPythonAsync by handleRun: it holds the thread while Python   *)
(* runs and gives it up where input() waits for its promise (run_sync),    *)
(* so that other messages are handled while it is suspended.               *)
(***************************************************************************)
ExecIds == 1..MaxWorkerMsgs

\* The executions in progress: started and not ended.
InProgress(w) == {x \in ExecIds : w.executions[x] \in {"running", "awaitingInput"}}

\* No execution holds the thread: the event loop hands out the next message.
ThreadFree(w) == \A x \in ExecIds : w.executions[x] # "running"

\* case 'init': await handleInit(data)
worker_handleInit ==
    /\ budget > 0
    /\ ThreadFree(pyWorker)
    /\ ~ pyWorker.pyodide
    /\ pyWorker' = [pyWorker EXCEPT !.pyodide = TRUE, !.sent = "ready",
                                    !.refused = FALSE]
    /\ budget' = budget - 1
    /\ UNCHANGED <<dbVars, notWk, runPage>>

\* case 'load-files': await handleLoadFiles(data); pyodide.FS of null throws
\* and the handler sends 'error'.
worker_handleLoadFiles ==
    /\ budget > 0
    /\ ThreadFree(pyWorker)
    /\ pyWorker' = [pyWorker EXCEPT
            !.loaded = IF pyWorker.pyodide THEN 1 ELSE @,
            !.sent = IF pyWorker.pyodide THEN "files-loaded" ELSE "error",
            !.refused = FALSE]
    /\ budget' = budget - 1
    /\ UNCHANGED <<dbVars, notWk, runPage>>

\* case 'run': await handleRun(data), up to the first await of the Python
\* code.  With isRunning set it sends 'Code is already running' and returns;
\* with pyodide null, pyodide.runPython throws, the catch sends 'error' and
\* the finally clears isRunning.
worker_handleRun ==
    /\ budget > 0
    /\ ThreadFree(pyWorker)
    /\ pyWorker' =
        IF pyWorker.isRunning
        THEN [pyWorker EXCEPT !.sent = "Code is already running", !.refused = TRUE]
        ELSE IF ~ pyWorker.pyodide
        THEN [pyWorker EXCEPT !.sent = "error", !.refused = FALSE]
        ELSE [pyWorker EXCEPT !.isRunning = TRUE,
                              !.started = @ + 1,
                              !.executions[pyWorker.started + 1] = "running",
                              !.sent = "", !.refused = FALSE]
    /\ budget' = budget - 1
    /\ UNCHANGED <<dbVars, notWk, runPage>>

\* case 'stop': handleStop()
worker_handleStop ==
    /\ budget > 0
    /\ ThreadFree(pyWorker)
    /\ pyWorker' = [pyWorker EXCEPT !.isRunning = FALSE, !.refused = FALSE]
    /\ budget' = budget - 1
    /\ UNCHANGED <<dbVars, notWk, runPage>>

\* Python calls input(): _input_async sends 'input-request' and awaits
\* waitForInput(), which stores the resolve function of its promise in the
\* one inputResolver of the module.
worker_input(x) ==
    /\ pyWorker.executions[x] = "running"
    /\ pyWorker' = [pyWorker EXCEPT !.executions[x] = "awaitingInput",
                                    !.inputResolver = x,
                                    !.sent = "input-request",
                                    !.refused = FALSE]
    /\ UNCHANGED <<dbVars, notWk, runPage, budget>>

\* case 'input-response': handleInputResponse(data) resolves the promise of
\* inputResolver, if there is one, and the execution that awaits it resumes.
worker_handleInputResponse ==
    /\ budget > 0
    /\ ThreadFree(pyWorker)
    /\ pyWorker' =
        IF pyWorker.inputResolver # 0
        THEN [pyWorker EXCEPT !.executions[pyWorker.inputResolver] = "running",
                              !.inputResolver = 0, !.refused = FALSE]
        ELSE [pyWorker EXCEPT !.refused = FALSE]
    /\ budget' = budget - 1
    /\ UNCHANGED <<dbVars, notWk, runPage>>

\* The Python code ends or raises: handleRun sends 'complete' or 'error',
\* and finally { isRunning = false; }
worker_finally(x) ==
    /\ pyWorker.executions[x] = "running"
    /\ \E outcome \in {"complete", "error"} :
        pyWorker' = [pyWorker EXCEPT !.executions[x] = "ended",
                                     !.isRunning = FALSE,
                                     !.sent = outcome,
                                     !.refused = FALSE]
    /\ UNCHANGED <<dbVars, notWk, runPage, budget>>

\* The worker as its module leaves it: let pyodide = null; let isRunning = false.
NewWorker ==
    [pyodide |-> FALSE, isRunning |-> FALSE, inputResolver |-> 0,
     executions |-> [x \in ExecIds |-> "none"], started |-> 0,
     loaded |-> 0, sent |-> "", refused |-> FALSE]

(***************************************************************************)
(* Running the trifle from the editor page: runCode, handleWorkerMessage,  *)
(* finishExecution, stopExecution and initWorker of editor.js, with the    *)
(* worker above at the other end.  worker numbers the Worker objects the   *)
(* page has created (0: state.worker is null); toWorker holds the messages *)
(* posted to the live worker and inbox those it has sent.                  *)
(***************************************************************************)
RunCalls == 1..MaxRunClicks

\* The page before initWorker.
NoRunPage ==
    [worker |-> 0, workerReady |-> FALSE, isRunning |-> FALSE, isDirty |-> FALSE,
     calls |-> [c \in RunCalls |-> "idle"], nCalls |-> 0,
     inbox |-> <<>>, toWorker |-> <<>>]

\* initWorker: any worker there is is terminated, a new one is created and
\* sent 'init'.  What a terminated worker has sent is not delivered.
AfterInitWorker(page) ==
    [page EXCEPT !.worker = @ + 1, !.workerReady = FALSE,
                 !.inbox = <<>>, !.toWorker = <<"init">>]

\* runCode from "Update button to Stop" to its end: isRunning is set and
\* 'load-files' and 'run' are posted.
RunPosted(page) ==
    [page EXCEPT !.isRunning = TRUE, !.toWorker = @ \o <<"load-files", "run">>]

\* The Run button or the shortcut: runCode() up to its first await or its
\* end.  Without the runtime it returns; while running it is Stop, and
\* stopExecution terminates the worker, resets the button and calls
\* initWorker; with unsaved text it awaits saveCurrentFile.
runCode ==
    /\ budget > 0
    /\ runPage.worker # 0
    /\ LET call == runPage.nCalls + 1
           called == [runPage EXCEPT !.nCalls = call, !.calls[call] = "done"]
       IN  IF ~ runPage.workerReady
           THEN /\ runPage' = called
                /\ pyWorker' = pyWorker
           ELSE IF runPage.isRunning
           THEN /\ runPage' = AfterInitWorker([called EXCEPT !.isRunning = FALSE])
                /\ pyWorker' = NewWorker
           ELSE IF runPage.isDirty
           THEN /\ runPage' = [called EXCEPT !.calls[call] = "saveCurrentFile"]
                /\ pyWorker' = pyWorker
           ELSE /\ runPage' = RunPosted(called)
                /\ pyWorker' = pyWorker
    /\ budget' = budget - 1
    /\ UNCHANGED <<dbVars, notWk>>

\* runCode after await saveCurrentFile(), which has cleared isDirty.
runCode_saved(call) ==
    /\ runPage.calls[call] = "saveCurrentFile"
    /\ runPage' = RunPosted([runPage EXCEPT !.calls[call] = "done",
                                            !.isDirty = FALSE])
    /\ UNCHANGED <<dbVars, notWk, pyWorker, budget>>

\* The worker handles the next message the page has posted: self.onmessage.
run_onmessage ==
    /\ runPage.toWorker # <<>>
    /\ ThreadFree(pyWorker)
    /\ LET type == Head(runPage.toWorker)
           reply(m) == [runPage EXCEPT !.toWorker = Tail(@), !.inbox = Append(@, m)]
       IN  CASE type = "init" ->
                    /\ pyWorker' = [pyWorker EXCEPT !.pyodide = TRUE, !.sent = "ready"]
                    /\ runPage' = reply("ready")
             [] type = "load-files" ->
                    /\ pyWorker' = [pyWorker EXCEPT
                            !.loaded = IF pyWorker.pyodide THEN 1 ELSE @,
                            !.sent = IF pyWorker.pyodide THEN "files-loaded" ELSE "error"]
                    /\ runPage' = reply(IF pyWorker.pyodide THEN "files-loaded" ELSE "error")
             [] type = "run" /\ (pyWorker.isRunning \/ ~ pyWorker.pyodide) ->
                    /\ pyWorker' = [pyWorker EXCEPT !.sent = "error",
                                                    !.refused = pyWorker.isRunning]
                    /\ runPage' = reply("error")
             [] type = "run" /\ ~ pyWorker.isRunning /\ pyWorker.pyodide ->
                    /\ pyWorker' = [pyWorker EXCEPT
                            !.isRunning = TRUE,
                            !.started = @ + 1,
                            !.executions[pyWorker.started + 1] = "running",
                            !.sent = "", !.refused = FALSE]
                    /\ runPage' = [runPage EXCEPT !.toWorker = Tail(@)]
    /\ UNCHANGED <<dbVars, notWk, budget>>

\* The Python code of a run from the page ends or raises: handleRun sends
\* 'files-changed' and 'complete', or 'error', and clears isRunning.
run_finally(x) ==
    /\ pyWorker.executions[x] = "running"
    /\ \E outcome \in {"complete", "error"} :
        /\ pyWorker' = [pyWorker EXCEPT !.executions[x] = "ended",
                                        !.isRunning = FALSE,
                                        !.sent = outcome,
                                        !.refused = FALSE]
        /\ runPage' = [runPage EXCEPT !.inbox =
                @ \o (IF outcome = "complete" THEN <<"files-changed", "complete">>
                      ELSE <<"error">>)]
    /\ UNCHANGED <<dbVars, notWk, budget>>

\* handleWorkerMessage: 'ready' sets workerReady, 'complete' and 'error'
\* call finishExecution, the others leave the flags alone.
handleWorkerMessage ==
    /\ runPage.inbox # <<>>
    /\ LET type == Head(runPage.inbox)
       IN  runPage' = [runPage EXCEPT
                !.inbox = Tail(@),
                !.workerReady = IF type = "ready" THEN TRUE ELSE @,
                !.isRunning = IF type \in {"complete", "error"} THEN FALSE ELSE @]
    /\ UNCHANGED <<dbVars, notWk, pyWorker, budget>>

(***************************************************************************)
(* Initial states: the database as initDB creates it, or as an earlier    *)
(* session left it after createUser('a') and createTrifle('user_1', 'a').  *)
(***************************************************************************)
SeedUser ==
    [id |-> UserIdPool[1], email |-> NullEmail,
     current_hash |-> computeHash(NewUserData("a")),
     last_modified |-> 1, logical_clock |-> 1]

SeedTrifleData == NewTrifleData("a", "", computeHash(mainPyContent))

SeedTrifle ==
    [id |-> TrifleIdPool[1], owner_id |-> UserIdPool[1],
     current_hash |-> computeHash(SeedTrifleData),
     last_modified |-> 1, logical_clock |-> 1]

SeedContent ==
    {[hash |-> computeHash(NewUserData("a")), data |-> NewUserData("a"), type |-> "user"],
     [hash |-> computeHash(mainPyContent), data |-> mainPyContent, type |-> "file"],
     [hash |-> computeHash(SeedTrifleData), data |-> SeedTrifleData, type |-> "trifle"]}

\* A version log an earlier session left: a session snapshot and a checkpoint.
SeedVersions ==
    {[id |-> 1, trifle_id |-> TrifleIdPool[1], hash |-> computeHash(PObjA),
      timestamp |-> 1, label |-> "session"],
     [id |-> 2, trifle_id |-> TrifleIdPool[1], hash |-> computeHash(PObjA),
      timestamp |-> 1, label |-> "checkpoint"]}

InitEmpty ==
    /\ content = {}
    /\ users = {}
    /\ trifles = {}
    /\ nUserIds = 0
    /\ nTrifleIds = 0

InitSeeded ==
    /\ content = SeedContent
    /\ users = {SeedUser}
    /\ trifles = {SeedTrifle}
    /\ nUserIds = 1
    /\ nTrifleIds = 1

InitCallers ==
    /\ now = 1
    /\ pc = [p \in Procs |-> "idle"]
    /\ loc = [p \in Procs |-> NoLoc]
    /\ last = NoEvent

\* No remote store is configured and no pass has run.
InitNoSync ==
    /\ remoteFiles = {}
    /\ remotePtrs = {}
    /\ sync = [id \in SyncIds |-> NoSync]

\* No account is signed in: nothing to migrate.
InitNoMigration ==
    /\ remoteKeys = {}
    /\ migration = NoMigration

\* No trifle is open in an editor.
InitNoEditor ==
    /\ editor = [trifleId |-> "", value |-> Str(""), isDirty |-> FALSE,
                 saveTimeout |-> FALSE, currentFile |-> Null, files |-> <<>>,
                 tasks |-> [op \in RmwOps |-> NoTask]]
    /\ saveTasks = [i \in SaveIds |-> NoSave]

\* No service worker is registered.
InitNoSw ==
    /\ swCaches = [name \in CacheNames |-> {}]
    /\ swFetches = [i \in FetchIds |-> NoFetch]
    /\ swLast = Answered(NoRequest, "")

\* The Python worker after 'init': nothing loaded, nothing imported.
InitNoImports ==
    /\ importEnv = [currentTrifleId |-> "", loadedTrifles |-> <<>>,
                    sysModules |-> <<>>, loaded |-> FALSE]
    /\ loadMsg = NoLoadMsg
    /\ importResult = NoImport

\* No program runs.
InitNoInput ==
    /\ channels = [toMain |-> <<>>, toWorker |-> <<>>]
    /\ pyRun = [state |-> "idle", inputResolver |-> FALSE, returned |-> <<>>]
    /\ term = [host |-> "editor", isWaitingForInput |-> FALSE,
               inputResolver |-> FALSE, prompt |-> "", awaited |-> FALSE,
               submitted |-> <<>>]

\* No turtle program has run.
InitNoTurtle ==
    /\ frameManager = NewFrameManager
    /\ animationFrames = <<>>
    /\ turtleRun = [_filling |-> FALSE, queued |-> <<>>, executed |-> <<>>,
                    tracerCalled |-> FALSE, resetCalled |-> FALSE,
                    complete |-> FALSE]

\* The avatar editor with no shapes.
InitNoAvatar ==
    /\ avatar = [shapes |-> <<>>, undoShapes |-> NoUndo, selectedShapeId |-> NoShape]
    /\ drag = NoDrag

\* No snippet has run.
InitNoSnippets ==
    /\ snipPage = [activeSnippet |-> NoSnippet, isRunning |-> {}, inbox |-> <<>>,
                   handled |-> NoMessage]
    /\ snipWorker = [inbox |-> <<>>, file |-> NoCode, globals |-> NewGlobals,
                     runs |-> 0]
    /\ snipResult = [run |-> 0, code |-> NoCode, value |-> NameError]

\* The worker as its module leaves it: let pyodide = null; let isRunning = false.
InitNoWorker ==
    /\ pyWorker = NewWorker
    /\ runPage = NoRunPage

InitNoApp ==
    /\ InitNoMigration
    /\ InitNoEditor
    /\ InitNoSw
    /\ InitNoImports
    /\ InitNoInput
    /\ InitNoTurtle
    /\ InitNoAvatar
    /\ InitNoSnippets
    /\ InitNoWorker

Init ==
    /\ InitEmpty \/ InitSeeded
    /\ versions = {}
    /\ nextVersionId = 1
    /\ InitCallers
    /\ InitNoSync
    /\ InitNoApp
    /\ budget = MaxOps

InitContent ==
    /\ InitSeeded
    /\ versions = {}
    /\ nextVersionId = 1
    /\ InitCallers
    /\ InitNoSync
    /\ InitNoApp
    /\ budget = MaxContentOps

InitHash ==
    /\ InitEmpty
    /\ versions = {}
    /\ nextVersionId = 1
    /\ InitCallers
    /\ InitNoSync
    /\ InitNoApp
    /\ budget = MaxHashOps

InitVersions ==
    /\ InitSeeded
    /\ \/ versions = {} /\ nextVersionId = 1
       \/ versions = SeedVersions /\ nextVersionId = 3
    /\ InitCallers
    /\ InitNoSync
    /\ InitNoApp
    /\ budget = MaxVersionOps

\* What the two sides hold when the engine starts: the local trifle as it
\* was created or after an edit, the remote store empty, at the created
\* state, or after another device's edit; the payload of that edit may have
\* been damaged in the remote store. The engine remembers the created state
\* as the last agreed one, or nothing.
LocalEdit == NewTrifleData("b", "", computeHash(mainPyContent))

RemoteEdit == NewTrifleData("c", "", computeHash(mainPyContent))

Damaged == NewTrifleData("", "", computeHash(mainPyContent))

EditedTrifle ==
    [SeedTrifle EXCEPT !.current_hash = computeHash(LocalEdit),
                       !.last_modified = 2, !.logical_clock = 2]

RemoteEdited ==
    [SeedTrifle EXCEPT !.current_hash = computeHash(RemoteEdit),
                       !.last_modified = 3, !.logical_clock = 2]

RemoteSeedFiles ==
    {[hash |-> computeHash(mainPyContent), data |-> mainPyContent],
     [hash |-> computeHash(SeedTrifleData), data |-> SeedTrifleData]}

InitLocal ==
    \/ trifles = {SeedTrifle} /\ content = SeedContent
    \/ /\ trifles = {EditedTrifle}
       /\ content = SeedContent \cup
            {[hash |-> computeHash(LocalEdit), data |-> LocalEdit, type |-> "trifle"]}

InitRemote ==
    \/ remotePtrs = {} /\ remoteFiles = {}
    \/ remotePtrs = {SeedTrifle} /\ remoteFiles = RemoteSeedFiles
    \/ /\ remotePtrs = {RemoteEdited}
       /\ \E data \in {RemoteEdit, Damaged} :
            remoteFiles = RemoteSeedFiles \cup
                {[hash |-> computeHash(RemoteEdit), data |-> data]}

InitSync ==
    /\ InitLocal
    /\ InitRemote
    /\ \E known \in {"", SeedTrifle.current_hash} :
            sync = [id \in SyncIds |-> [NoSync EXCEPT !.lastKnown = known]]
    /\ users = {SeedUser}
    /\ nUserIds = 1
    /\ nTrifleIds = 1
    /\ versions = {}
    /\ nextVersionId = 1
    /\ InitCallers
    /\ InitNoApp
    /\ budget = MaxSyncOps

\* The pointer stores, with the content the pointers refer to.
Next ==
    \/ Tick
    \/ \E p \in Procs :
        \/ createUser_storeContent(p)
        \/ createUser_add(p)
        \/ updateUser_getUser(p)
        \/ updateUser_storeContent(p)
        \/ updateUser_put(p)
        \/ createTrifle_storeMainPy(p)
        \/ createTrifle_storeContent(p)
        \/ createTrifle_add(p)
        \/ updateTrifle_getTrifle(p)
        \/ updateTrifle_storeContent(p)
        \/ updateTrifle_put(p)
        \/ deleteTrifle(p)
        \/ TxFail(p)

Spec == Init /\ [][Next]_vars

\* The content store: storeContent called by itself and through the updates.
NextContent ==
    \/ Tick
    \/ \E p \in Procs :
        \/ storeContent(p)
        \/ updateUser_getUser(p)
        \/ updateUser_storeContent(p)
        \/ updateUser_put(p)
        \/ updateTrifle_getTrifle(p)
        \/ updateTrifle_storeContent(p)
        \/ updateTrifle_put(p)
        \/ TxFail(p)

SpecContent == InitContent /\ [][NextContent]_vars

\* The version log, with the deletion that cascades to it.
NextVersions ==
    \/ Tick
    \/ \E p \in Procs :
        \/ deleteTrifle(p)
        \/ createVersion(p)
        \/ cleanupVersions_getVersions(p)
        \/ cleanupVersions_delete(p)
        \/ TxFail(p)

SpecVersions == InitVersions /\ [][NextVersions]_vars

\* The sync engine against the remote store.
NextSync ==
    \E id \in SyncIds :
        \/ sync_fetch(id)
        \/ sync_uploadContent(id)
        \/ sync_uploadPointer(id)
        \/ sync_download(id)
        \/ sync_resolve(id)
        \/ sync_snapshot(id)
        \/ sync_storeContent(id)
        \/ sync_putPointer(id)
        \/ sync_addRenamed(id)
        \/ sync_fail(id)

SpecSync == InitSync /\ [][NextSync]_vars

\* What the remote store holds when the account signs in: legacy keys or
\* none, the new path empty, or populated by an earlier migration and
\* possibly written since; and the keys of another account.
LegacyKeys ==
    {[key |-> LegacyPath(Email) \o "profile", value |-> "p1"],
     [key |-> LegacyPath(Email) \o "trifle/latest/t1", value |-> "v1"]}

OtherKeys ==
    {[key |-> LegacyPath(OtherEmail) \o "profile", value |-> "q1"],
     [key |-> DomainPath(OtherEmail) \o "profile", value |-> "q2"]}

MigratedKeys == {[key |-> Rekey(r.key, Email), value |-> r.value] : r \in LegacyKeys}

WrittenSince ==
    {[key |-> DomainPath(Email) \o "profile", value |-> "p2"],
     [key |-> DomainPath(Email) \o "trifle/latest/t1", value |-> "v1"]}

InitMigration ==
    /\ InitSeeded
    /\ versions = {}
    /\ nextVersionId = 1
    /\ InitCallers
    /\ InitNoSync
    /\ \E legacy \in {{}, LegacyKeys},
          fresh \in {{}, MigratedKeys, WrittenSince},
          other \in SUBSET OtherKeys :
            remoteKeys = legacy \cup fresh \cup other
    /\ migration = NoMigration
    /\ InitNoEditor
    /\ InitNoSw
    /\ InitNoImports
    /\ InitNoInput
    /\ InitNoTurtle
    /\ InitNoAvatar
    /\ InitNoSnippets
    /\ InitNoWorker
    /\ budget = MaxMigrateOps

\* The key-space migration, run again on every sign-in.
NextMigration ==
    \/ migrate_check
    \/ migrate_copy
    \/ migrate_fail

SpecMigration == InitMigration /\ [][NextMigration]_vars

\* The editor with the seeded trifle open on main.py, as loaded.
InitEditor ==
    /\ InitSeeded
    /\ versions = {}
    /\ nextVersionId = 1
    /\ InitCallers
    /\ InitNoSync
    /\ InitNoMigration
    /\ editor = [trifleId |-> TrifleIdPool[1],
                 value |-> mainPyContent,
                 isDirty |-> FALSE,
                 saveTimeout |-> FALSE,
                 currentFile |-> [path |-> "main.py", content |-> mainPyContent,
                                  hash |-> computeHash(mainPyContent)],
                 files |-> <<[path |-> "main.py", content |-> mainPyContent,
                              hash |-> computeHash(mainPyContent)]>>,
                 tasks |-> [op \in RmwOps |-> NoTask]]
    /\ saveTasks = [i \in SaveIds |-> NoSave]
    /\ InitNoSw
    /\ InitNoImports
    /\ InitNoInput
    /\ InitNoTurtle
    /\ InitNoAvatar
    /\ InitNoSnippets
    /\ InitNoWorker
    /\ budget = MaxEdits

\* The user types, the timer fires, the saves run.
NextEditor ==
    \/ editor_change
    \/ editor_timeout
    \/ \E i \in SaveIds :
        \/ save_storeContent(i)
        \/ save_getTrifleData(i)
        \/ save_updateTrifle_getTrifle(i)
        \/ save_updateTrifle_storeContent(i)
        \/ save_updateTrifle_put(i)

SpecEditor == InitEditor /\ [][NextEditor]_vars

\* The worker at its first installation, or installed over the cache of an
\* earlier version.
InitSw ==
    /\ InitSeeded
    /\ versions = {}
    /\ nextVersionId = 1
    /\ InitCallers
    /\ InitNoSync
    /\ InitNoMigration
    /\ InitNoEditor
    /\ \E old \in {{}, STATIC_CACHE} :
        swCaches = [name \in CacheNames |-> IF name = OldCacheName THEN old ELSE {}]
    /\ swFetches = [i \in FetchIds |-> NoFetch]
    /\ swLast = Answered(NoRequest, "")
    /\ InitNoImports
    /\ InitNoInput
    /\ InitNoTurtle
    /\ InitNoAvatar
    /\ InitNoSnippets
    /\ InitNoWorker
    /\ budget = MaxSwEvents

NextSw ==
    \/ sw_install
    \/ sw_activate
    \/ sw_fetch
    \/ \E i \in FetchIds :
        \/ sw_match(i)
        \/ sw_matchNoQuery(i)
        \/ sw_network(i)
        \/ sw_put(i)

SpecSw == InitSw /\ [][NextSw]_vars

\* The Python worker, from 'init' on.
InitImports ==
    /\ InitSeeded
    /\ versions = {}
    /\ nextVersionId = 1
    /\ InitCallers
    /\ InitNoSync
    /\ InitNoMigration
    /\ InitNoEditor
    /\ InitNoSw
    /\ InitNoImports
    /\ InitNoInput
    /\ InitNoTurtle
    /\ InitNoAvatar
    /\ InitNoSnippets
    /\ InitNoWorker
    /\ budget = MaxImportOps

NextImports ==
    \/ handleLoadFiles
    \/ import_mine

SpecImports == InitImports /\ [][NextImports]_vars

\* A program that calls input() runs, started from the editor or from a
\* snippet.
InitInput ==
    /\ InitSeeded
    /\ versions = {}
    /\ nextVersionId = 1
    /\ InitCallers
    /\ InitNoSync
    /\ InitNoMigration
    /\ InitNoEditor
    /\ InitNoSw
    /\ InitNoImports
    /\ channels = [toMain |-> <<>>, toWorker |-> <<>>]
    /\ pyRun = [state |-> "running", inputResolver |-> FALSE, returned |-> <<>>]
    /\ \E host \in Hosts :
        term = [host |-> host, isWaitingForInput |-> FALSE,
                inputResolver |-> FALSE, prompt |-> "", awaited |-> FALSE,
                submitted |-> <<>>]
    /\ InitNoTurtle
    /\ InitNoAvatar
    /\ InitNoSnippets
    /\ InitNoWorker
    /\ budget = MaxInputs

NextInput ==
    \/ py_input
    \/ page_inputRequest
    \/ submitInput
    \/ handleInputResponse

SpecInput == InitInput /\ [][NextInput]_vars

\* A turtle program runs on a page whose canvas was reset before the run.
InitTurtle ==
    /\ InitSeeded
    /\ versions = {}
    /\ nextVersionId = 1
    /\ InitCallers
    /\ InitNoSync
    /\ InitNoMigration
    /\ InitNoEditor
    /\ InitNoSw
    /\ InitNoImports
    /\ InitNoInput
    /\ InitNoTurtle
    /\ InitNoAvatar
    /\ InitNoSnippets
    /\ InitNoWorker
    /\ budget = MaxTurtleCalls

NextTurtle ==
    \/ turtle_method
    \/ update
    \/ animationFrame
    \/ tracer
    \/ turtle_reset
    \/ turtle_complete

SpecTurtle == InitTurtle /\ [][NextTurtle]_vars

\* The numbers of shapes of the saved avatar the editor opens with.
SavedShapeCounts == {0, 1, MAX_SHAPES - 1, MAX_SHAPES}

\* The avatar editor opened on a saved avatar of at most MAX_SHAPES shapes.
InitAvatar ==
    /\ InitSeeded
    /\ versions = {}
    /\ nextVersionId = 1
    /\ InitCallers
    /\ InitNoSync
    /\ InitNoMigration
    /\ InitNoEditor
    /\ InitNoSw
    /\ InitNoImports
    /\ InitNoInput
    /\ InitNoTurtle
    /\ \E n \in SavedShapeCounts :
        avatar = [shapes |-> [i \in 1..n |-> i - 1], undoShapes |-> NoUndo,
                  selectedShapeId |-> NoShape]
    /\ drag = NoDrag
    /\ InitNoSnippets
    /\ InitNoWorker
    /\ budget = MaxAvatarOps

NextAvatar ==
    \/ palette_click
    \/ palette_drop
    \/ mousedown
    \/ mousemove
    \/ mouseup
    \/ mouseleave
    \/ deleteSelectedShape
    \/ handleClearOrUndo

SpecAvatar == InitAvatar /\ [][NextAvatar]_vars

\* A documentation page whose snippets are run.
InitSnippets ==
    /\ InitSeeded
    /\ versions = {}
    /\ nextVersionId = 1
    /\ InitCallers
    /\ InitNoSync
    /\ InitNoMigration
    /\ InitNoEditor
    /\ InitNoSw
    /\ InitNoImports
    /\ InitNoInput
    /\ InitNoTurtle
    /\ InitNoAvatar
    /\ InitNoSnippets
    /\ InitNoWorker
    /\ budget = MaxRuns

NextSnippets ==
    \/ snippet_run
    \/ snippet_loadFiles
    \/ snippet_handleRun
    \/ snippet_stdout
    \/ snippet_complete

SpecSnippets == InitSnippets /\ [][NextSnippets]_vars

\* The worker handles every message posted to it and the page every message
\* the worker sends.
SpecSnippetsFair ==
    /\ SpecSnippets
    /\ WF_vars(snippet_loadFiles)
    /\ WF_vars(snippet_handleRun)
    /\ WF_vars(snippet_stdout)
    /\ WF_vars(snippet_complete)

\* A worker that is sent messages in any order.
InitWorker ==
    /\ InitSeeded
    /\ versions = {}
    /\ nextVersionId = 1
    /\ InitCallers
    /\ InitNoSync
    /\ InitNoApp
    /\ budget = MaxWorkerMsgs

NextWorker ==
    \/ worker_handleInit
    \/ worker_handleLoadFiles
    \/ worker_handleRun
    \/ worker_handleStop
    \/ worker_handleInputResponse
    \/ \E x \in ExecIds : worker_input(x)
    \/ \E x \in ExecIds : worker_finally(x)

SpecWorker == InitWorker /\ [][NextWorker]_vars

\* The editor page once init() has called initWorker, with or without
\* unsaved text.
InitRun ==
    /\ InitSeeded
    /\ versions = {}
    /\ nextVersionId = 1
    /\ InitCallers
    /\ InitNoSync
    /\ InitNoMigration
    /\ InitNoEditor
    /\ InitNoSw
    /\ InitNoImports
    /\ InitNoInput
    /\ InitNoTurtle
    /\ InitNoAvatar
    /\ InitNoSnippets
    /\ pyWorker = NewWorker
    /\ \E dirty \in BOOLEAN :
        runPage = AfterInitWorker([NoRunPage EXCEPT !.isDirty = dirty])
    /\ budget = MaxRunClicks

NextRun ==
    \/ runCode
    \/ \E call \in RunCalls : runCode_saved(call)
    \/ run_onmessage
    \/ \E x \in ExecIds : run_finally(x)
    \/ handleWorkerMessage

SpecRun == InitRun /\ [][NextRun]_vars

\* A second file of the trifle.
utilPyContent == Str("y = 1\n")

FilePaths == {"main.py", "util.py"}

\* The data of the seeded trifle after util.py was created.
TwoFileData ==
    Obj(<< <<"name", Str("a")>>,
           <<"description", Str("")>>,
           <<"files", Arr(<< Obj(<< <<"path", Str("main.py")>>,
                                    <<"hash", Str(computeHash(mainPyContent))>> >>),
                             Obj(<< <<"path", Str("util.py")>>,
                                    <<"hash", Str(computeHash(utilPyContent))>> >>) >>)>> >>)

\* The editor with a trifle of two files open on main.py, as loaded.
InitTwoFiles ==
    /\ content = SeedContent \cup
            {[hash |-> computeHash(utilPyContent), data |-> utilPyContent, type |-> "file"],
             [hash |-> computeHash(TwoFileData), data |-> TwoFileData, type |-> "trifle"]}
    /\ users = {SeedUser}
    /\ trifles = {[SeedTrifle EXCEPT !.current_hash = computeHash(TwoFileData)]}
    /\ nUserIds = 1
    /\ nTrifleIds = 1
    /\ versions = {}
    /\ nextVersionId = 1
    /\ InitCallers
    /\ InitNoSync
    /\ InitNoMigration
    /\ editor = [trifleId |-> TrifleIdPool[1],
                 value |-> mainPyContent,
                 isDirty |-> FALSE,
                 saveTimeout |-> FALSE,
                 currentFile |-> [path |-> "main.py", content |-> mainPyContent,
                                  hash |-> computeHash(mainPyContent)],
                 files |-> <<[path |-> "main.py", content |-> mainPyContent,
                              hash |-> computeHash(mainPyContent)],
                             [path |-> "util.py", content |-> utilPyContent,
                              hash |-> computeHash(utilPyContent)]>>,
                 tasks |-> [op \in RmwOps |-> NoTask]]
    /\ saveTasks = [i \in SaveIds |-> NoSave]
    /\ InitNoSw
    /\ InitNoImports
    /\ InitNoInput
    /\ InitNoTurtle
    /\ InitNoAvatar
    /\ InitNoSnippets
    /\ InitNoWorker

InitFiles == InitTwoFiles /\ budget = MaxFileOps

\* The user types and switches files, the timer fires, the saves run.
NextFiles ==
    \/ editor_change
    \/ editor_timeout
    \/ openFile
    \/ \E i \in SaveIds :
        \/ save_storeContent(i)
        \/ save_getTrifleData(i)
        \/ save_updateTrifle_getTrifle(i)
        \/ save_updateTrifle_storeContent(i)
        \/ save_updateTrifle_put(i)

SpecFiles == InitFiles /\ [][NextFiles]_vars

InitRmw == InitTwoFiles /\ budget = MaxRmwOps

\* The user types, creates and deletes files and renames the trifle, a run
\* hands over the file it has written, and the operations run.
NextRmw ==
    \/ editor_change
    \/ editor_timeout
    \/ \E i \in SaveIds :
        \/ save_storeContent(i)
        \/ save_getTrifleData(i)
        \/ save_updateTrifle_getTrifle(i)
        \/ save_updateTrifle_storeContent(i)
        \/ save_updateTrifle_put(i)
    \/ createFile
    \/ deleteFile
    \/ saveTitle
    \/ syncFilesFromWorker
    \/ \E op \in RmwOps :
        \/ rmw_getTrifleData(op)
        \/ rmw_storeContent(op)
        \/ rmw_updateTrifle_getTrifle(op)
        \/ rmw_updateTrifle_storeContent(op)
        \/ rmw_updateTrifle_put(op)

SpecRmw == InitRmw /\ [][NextRmw]_vars

\* computeHash called on payloads of every shape.
NextHash == \E p \in Procs : computeHash_call(p)

SpecHash == InitHash /\ [][NextHash]_vars

(***************************************************************************)
(* Properties.                                                             *)
(***************************************************************************)
Has(store, id) == \E r \in store : r.id = id

Min(a, b) == IF a < b THEN a ELSE b

\* This step ends a call of op that resolved.
Resolves(op) == last' # last /\ last'.op = op /\ last'.status = "ok"

\* This step starts a call of op that ends at once.
EndsAtStart(op) == budget' < budget /\ last' # last /\ last'.op = op

\* C1: every completed update of a pointer raises the stored logical_clock of
\* that pointer by exactly 1, however the update calls on it interleave.
C1_AtomicUpdate ==
    [][ /\ Resolves("updateTrifle") /\ Has(trifles, last'.id)
            => PointerGet(trifles', last'.id).logical_clock
                 = PointerGet(trifles, last'.id).logical_clock + 1
        /\ Resolves("updateUser") /\ Has(users, last'.id)
            => PointerGet(users', last'.id).logical_clock
                 = PointerGet(users, last'.id).logical_clock + 1 ]_vars

\* C2: a record of the content store, once written, stays as it is: the same
\* data and the same type under its hash in every later state.
C2_ContentImmutable ==
    [][ \A r \in content : r \in content' ]_vars

\* The (payload, hash) pairs storeContent has returned to the calls the state
\* remembers: the running calls and the call that ended last.
StoreContentReturns ==
    {[data |-> loc[p].data, hash |-> loc[p].hash] : p \in {q \in Procs : loc[q].hash # ""}}
        \cup (IF last.op = "storeContent"
              THEN {[data |-> last.data, hash |-> last.hash]}
              ELSE {})

\* C3: the content store holds at most one record per hash; storeContent
\* calls with the same payload returned the same hash, and exactly one record
\* is stored under a hash that storeContent returned.
C3_Dedup ==
    /\ \A r1, r2 \in content : r1.hash = r2.hash => r1 = r2
    /\ \A c1, c2 \in StoreContentReturns :
        /\ c1.data = c2.data => c1.hash = c2.hash
        /\ Cardinality({r \in content : r.hash = c1.hash}) = 1

\* Two storeContent calls with the same payload have returned: one called by
\* itself, one inside an updateTrifle that still waits to write its pointer.
C3_Witness ==
    /\ last.op = "storeContent"
    /\ \E p \in Procs :
        /\ pc[p] = "updateTrifle_put"
        /\ loc[p].data = last.data
        /\ loc[p].hash = last.hash

\* C4: in every state, also between the steps of a create or an update and
\* after a failed transaction, the current_hash of every stored pointer is
\* the hash of a record of the content store.
C4_ReferentialIntegrity ==
    \A r \in users \cup trifles : \E c \in content : c.hash = r.current_hash

\* An updateTrifle stored its new content and then failed to write the
\* pointer: the pointer still refers to the old content.
C4_Witness ==
    /\ last.op = "updateTrifle"
    /\ last.status = "TxError"
    /\ Has(trifles, last.id)
    /\ \E c \in content :
        /\ c.data \in DataBlobs
        /\ c.hash # PointerGet(trifles, last.id).current_hash

\* C5: a pointer is created with logical_clock 1, and the stored
\* logical_clock of a pointer id is at least 1 and never decreases.
C5_MonotonicClock ==
    [][ \A r \in users' \cup trifles' :
            /\ r.logical_clock >= 1
            /\ ~Has(users \cup trifles, r.id) => r.logical_clock = 1
            /\ \A old \in users \cup trifles :
                old.id = r.id => r.logical_clock >= old.logical_clock ]_vars

\* C6: an update called on an id that has no pointer ends at once with the
\* not-found error and leaves every store as it was; only an update of a
\* stored pointer goes on to store content.
C6_UpdateNotFound ==
    [][ /\ EndsAtStart("updateTrifle")
            => /\ ~Has(trifles, last'.id)
               /\ last'.status = "NotFound"
               /\ UNCHANGED stores
        /\ EndsAtStart("updateUser")
            => /\ ~Has(users, last'.id)
               /\ last'.status = "NotFound"
               /\ UNCHANGED stores
        /\ \A p \in Procs :
            pc[p] = "idle" /\ pc'[p] = "updateTrifle_storeContent"
                => Has(trifles, loc'[p].id)
        /\ \A p \in Procs :
            pc[p] = "idle" /\ pc'[p] = "updateUser_storeContent"
                => Has(users, loc'[p].id) ]_vars

\* updateTrifle was called on an id without a pointer, and threw.
C6_Witness ==
    /\ last.op = "updateTrifle"
    /\ last.status = "NotFound"
    /\ ~Has(trifles, last.id)

\* What a resolved update of the pointer id of store may have changed, other
\* being the other pointer store: nothing of other, no record of another id,
\* and of the record of id neither the id nor the owner (given by the field
\* ownerField), nor the set of its fields.
UpdateFrame(store, storeNext, other, otherNext, id, ownerField) ==
    /\ otherNext = other
    /\ {r \in storeNext : r.id # id} = {r \in store : r.id # id}
    /\ Cardinality({r \in storeNext : r.id = id}) = 1
    /\ \A old \in store : \A new \in storeNext :
        old.id = id /\ new.id = id
            => /\ DOMAIN new = DOMAIN old
               /\ new[ownerField] = old[ownerField]

\* C7: a completed update changes only current_hash, last_modified and
\* logical_clock of the pointer with the given id: its id and owner_id (email
\* for a user) stay, and no other pointer record is modified.
C7_UpdateFrame ==
    [][ /\ Resolves("updateTrifle")
            => UpdateFrame(trifles, trifles', users, users', last'.id, "owner_id")
        /\ Resolves("updateUser")
            => UpdateFrame(users, users', trifles, trifles', last'.id, "email") ]_vars

\* An updateTrifle completed while a second trifle was stored.
C7_Witness ==
    /\ last.op = "updateTrifle"
    /\ last.status = "ok"
    /\ Cardinality(trifles) = 2
    /\ PointerGet(trifles, last.id).logical_clock = 2

\* C8: the step that completes deleteTrifle(id) removes the pointer of id and
\* every version of id together: after it no pointer has that id and no
\* version has it as trifle_id; and a pointer never disappears while
\* versions of it stay.
C8_DeleteCascade ==
    [][ /\ Resolves("deleteTrifle")
            => /\ ~Has(trifles', last'.id)
               /\ \A v \in versions' : v.trifle_id # last'.id
        /\ \A r \in trifles :
            ~Has(trifles', r.id) => \A v \in versions' : v.trifle_id # r.id ]_vars

\* deleteTrifle removed a trifle that had versions in the log.
C8_Witness ==
    /\ last.op = "deleteTrifle"
    /\ last.status = "ok"
    /\ last.id = TrifleIdPool[1]
    /\ last.n = 1
    /\ nextVersionId = 3
    /\ versions = {}
    /\ trifles = {}

\* C9: every completed update of a trifle appends a session version of that
\* trifle to the version log.
C9_VersionPerUpdate ==
    [][ Resolves("updateTrifle")
            => \E v \in versions' \ versions :
                v.trifle_id = last'.id /\ v.label = "session" ]_vars

\* C10: a completed cleanupVersions(p, k) has deleted only session versions
\* of p, has left the k newest of them (all of them when there are at most
\* k), every one it left being at least as new as every one it deleted, and
\* has returned the number of versions it deleted.
C10_CleanupVersions ==
    [][ Resolves("cleanupVersions")
            => LET session == {v \in versions :
                                 v.trifle_id = last'.id /\ v.label = "session"}
                   deleted == versions \ versions'
               IN  /\ deleted \subseteq session
                   /\ versions' \subseteq versions
                   /\ Cardinality(session \ deleted)
                        = Min(last'.keepCount, Cardinality(session))
                   /\ \A kept \in session \ deleted : \A d \in deleted :
                        kept.timestamp >= d.timestamp
                   /\ last'.count = Cardinality(deleted) ]_vars

\* C11: a completed cleanupVersions(p, k) has deleted no checkpoint version
\* and no version of a pointer other than p, has added no version, and has
\* left the pointer stores and the content store as they were.
C11_CleanupFrame ==
    [][ Resolves("cleanupVersions")
            => /\ \A v \in versions \ versions' :
                    v.label = "session" /\ v.trifle_id = last'.id
               /\ versions' \subseteq versions
               /\ UNCHANGED <<content, users, trifles>> ]_vars

\* cleanupVersions deleted a session version while a checkpoint of the same
\* trifle and a version of another trifle were in the log.
C11_Witness ==
    /\ last.op = "cleanupVersions"
    /\ last.status = "ok"
    /\ last.count = 1
    /\ \E v \in versions : v.trifle_id = last.id /\ v.label = "checkpoint"
    /\ \E v \in versions : v.trifle_id # last.id
    /\ \A v \in versions : v.trifle_id = last.id => v.label # "session"

\* The log holds at most keepCount session versions of trifleId: there is
\* nothing for cleanupVersions(trifleId, keepCount) to delete.
Pruned(log, trifleId, keepCount) ==
    Cardinality({v \in log : v.trifle_id = trifleId /\ v.label = "session"}) <= keepCount

\* C12: cleanupVersions(p, k) is idempotent.  When no operation changed the
\* log between its read and its delete, the call leaves a log with nothing
\* for cleanupVersions(p, k) to delete; and a call that finds such a log
\* returns 0 and leaves the log as it is, while a call that goes on to delete
\* did not find such a log.
C12_CleanupIdempotent ==
    [][ /\ \A p \in Procs :
            /\ pc[p] = "cleanupVersions_delete"
            /\ Resolves("cleanupVersions")
            /\ last'.proc = p
            /\ loc[p].toDelete = ToDelete(getVersions(loc[p].id), loc[p].keepCount)
            => Pruned(versions', loc[p].id, loc[p].keepCount)
        /\ EndsAtStart("cleanupVersions")
            => /\ Pruned(versions, last'.id, last'.keepCount)
               /\ last'.count = 0
               /\ UNCHANGED stores
        /\ \A p \in Procs :
            pc[p] = "idle" /\ pc'[p] = "cleanupVersions_delete"
                => ~Pruned(versions, loc'[p].id, loc'[p].keepCount) ]_vars

\* cleanupVersions('trifle_1', 0) deleted the session version of the log an
\* earlier session left, and the same call run again returned 0.
C12_Witness ==
    /\ last.op = "cleanupVersions"
    /\ last.status = "ok"
    /\ last.id = TrifleIdPool[1]
    /\ last.keepCount = 0
    /\ last.count = 0
    /\ last.n = 2
    /\ budget = MaxVersionOps - 2
    /\ nextVersionId = 3
    /\ Cardinality(versions) = 1
    /\ trifles # {}

C14_GetVersions ==
    \A trifleId \in TrifleIds :
        LET result == getVersions(trifleId)
        IN  /\ {result[i] : i \in 1..Len(result)}
                 = {v \in versions : v.trifle_id = trifleId}
            /\ Len(result) = Cardinality({v \in versions : v.trifle_id = trifleId})
            /\ \A i, j \in 1..Len(result) :
                i < j => result[i].timestamp >= result[j].timestamp

\* The log holds versions of two trifles, and getVersions returns a later
\* added, newer version of a trifle before an older one.
C14_Witness ==
    /\ \E v \in versions : v.trifle_id = TrifleIdPool[2]
    /\ LET result == getVersions(TrifleIdPool[1])
       IN  /\ Len(result) >= 2
           /\ result[1].id > result[Len(result)].id
           /\ result[1].timestamp > result[Len(result)].timestamp

\* The fields of an object whose value is not undefined.
DefinedKeys(obj) ==
    {obj.kv[i][1] : i \in {j \in 1..Len(obj.kv) : obj.kv[j][2] # Undef}}

\* a and b are the same value but for the insertion order of object keys and
\* for object fields whose value is undefined, at any depth.
RECURSIVE SameValue(_, _)
SameValue(a, b) ==
    IF a.t # b.t THEN FALSE
    ELSE IF a.t = "obj"
    THEN /\ DefinedKeys(a) = DefinedKeys(b)
         /\ \A k \in DefinedKeys(a) : SameValue(Field(a.kv, k), Field(b.kv, k))
    ELSE IF a.t = "arr"
    THEN /\ Len(a.items) = Len(b.items)
         /\ \A i \in 1..Len(a.items) : SameValue(a.items[i], b.items[i])
    ELSE a = b

\* b is a without one of its fields, a field whose value is null.
NullFieldDropped(a, b) ==
    /\ a.t = "obj"
    /\ b.t = "obj"
    /\ \E k \in DefinedKeys(a) :
        /\ Field(a.kv, k) = Null
        /\ DefinedKeys(b) = DefinedKeys(a) \ {k}
        /\ \A o \in DefinedKeys(b) : SameValue(Field(a.kv, o), Field(b.kv, o))

\* a and b are arrays of the same elements, in another order.
Reordered(a, b) ==
    /\ a.t = "arr"
    /\ b.t = "arr"
    /\ Len(a.items) = Len(b.items)
    /\ \A i \in 1..Len(a.items) :
        SameValue(a.items[i], b.items[Len(a.items) + 1 - i])
    /\ \E i \in 1..Len(a.items) : ~SameValue(a.items[i], b.items[i])

\* a and b are the same but for one place, at any depth, where b lacks a
\* null-valued field of a (how = "null") or has the elements of an array in
\* another order (how = "order").
RECURSIVE SameButAt(_, _, _)
SameButAt(a, b, how) ==
    \/ how = "null" /\ NullFieldDropped(a, b)
    \/ how = "order" /\ Reordered(a, b)
    \/ /\ a.t = "obj"
       /\ b.t = "obj"
       /\ DefinedKeys(a) = DefinedKeys(b)
       /\ \E k \in DefinedKeys(a) :
            /\ SameButAt(Field(a.kv, k), Field(b.kv, k), how)
            /\ \A o \in DefinedKeys(a) \ {k} :
                SameValue(Field(a.kv, o), Field(b.kv, o))

\* The computeHash calls whose result a caller holds.
HashCalls == {loc[p] : p \in {q \in Procs : loc[q].op = "computeHash"}}

\* C15: computeHash gives two objects that differ only in the insertion order
\* of keys or in undefined-valued fields, at any depth, the same hash (their
\* canonical strings are the same); it gives different hashes to two objects
\* that differ in a null-valued field one has and the other lacks, and to two
\* that differ in the order of the elements of an array.
C15_Canonical ==
    \A c1, c2 \in HashCalls :
        /\ c1.data.t # "str" /\ c2.data.t # "str" /\ SameValue(c1.data, c2.data)
            => /\ c1.hash = c2.hash
               /\ canonicalJSON(c1.data) = canonicalJSON(c2.data)
        /\ SameButAt(c1.data, c2.data, "null") => c1.hash # c2.hash
        /\ SameButAt(c1.data, c2.data, "order") => c1.hash # c2.hash

\* Two callers hold the hashes of two objects that differ, nested, in key
\* order and in an undefined-valued field.
C15_Witness ==
    \E c1, c2 \in HashCalls :
        /\ c1.data # c2.data
        /\ SameValue(c1.data, c2.data)
        /\ \E k \in DefinedKeys(c1.data) :
            /\ Field(c1.data.kv, k).t = "obj"
            /\ Field(c1.data.kv, k) # Field(c2.data.kv, k)
            /\ Len(Field(c1.data.kv, k).kv) # Len(Field(c2.data.kv, k).kv)

\* C16: payloads stored under the same hash have identical content: for
\* every hash storeContent has returned, getContent of that hash returns the
\* payload that was stored.
C16_SameHashSameContent ==
    \A c \in StoreContentReturns : getContent(c.hash) = c.data

\* What the version log of a trifle and the pointers hold.
Retrievable(log, pointers, id) ==
    {v.hash : v \in {w \in log : w.trifle_id = id}} \cup
    {r.current_hash : r \in pointers}

C18_NoAutoResolve ==
    [][\A id \in SyncIds :
        LET local == PointerGet(trifles, id)
            remote == PointerGet(remotePtrs, id)
        IN  /\ budget' < budget
                    /\ remote # NoPtr
                    /\ remote.current_hash # local.current_hash
                    /\ ~LocalDominates(local, remote, sync[id].lastKnown)
                    /\ ~RemoteDominates(local, remote, sync[id].lastKnown)
                => /\ sync'[id].plan = "conflict"
                   /\ sync'[id].state \notin {"Pushing", "Reconciled", "Resolved"}
            /\ sync'[id].plan = "conflict" /\ sync'[id].chosen = ""
                => /\ UNCHANGED <<stores, remoteFiles, remotePtrs>>
                   /\ sync'[id].state \in {"Pulling", "Conflict", "Failed"}]_vars

\* A pass waits in Conflict with the recommendation to keep the remote
\* state; both sides are as the pass found them.
C18_Witness ==
    \E id \in SyncIds :
        /\ sync[id].state = "Conflict"
        /\ sync[id].chosen = ""
        /\ sync[id].recommend = "keepRemote"
        /\ sync[id].local.logical_clock = sync[id].remote.logical_clock
        /\ PointerGet(trifles, id) = sync[id].local
        /\ PointerGet(remotePtrs, id) = sync[id].remote

\* The hashes a remote pointer record refers to: its data blob and the
\* files that blob lists.
RemoteReferenced(record) ==
    {record.current_hash} \cup FileHashes(RemoteFile(record.current_hash))

\* C19: in every state of the remote store, also after a pass was cut short
\* at any step, every hash a remote pointer record refers to is present in
\* the remote file store.
C19_RemoteIntegrity ==
    \A record \in remotePtrs : RemoteReferenced(record) \subseteq RemoteHashes

\* A push was cut short after the data blob of the local pointer was
\* uploaded: the remote store holds the blob and no record that refers to it.
C19_Witness ==
    \E id \in SyncIds :
        /\ sync[id].state = "Failed"
        /\ sync[id].plan = "push"
        /\ sync[id].local.current_hash \in RemoteHashes
        /\ \A record \in remotePtrs :
            record.current_hash # sync[id].local.current_hash

\* C20: the step of a pass that receives a payload whose recomputed hash is
\* not the claimed one leaves the pointer Failed and stores nothing, and
\* with the payload received the error is IntegrityError; a pass keeps no
\* payload that does not hash to the claimed hash; after an IntegrityError
\* the local pointer is the one the pass found and no content record holds
\* the payload; and a Failed pointer stays Failed until a pass starts for
\* it again, which it can while the trifle exists.
C20_IntegrityError ==
    [][\A id \in SyncIds :
        LET claimed == sync[id].remote.current_hash
            pass == sync'[id]
        IN  /\ sync[id].step = "download" /\ pass # sync[id]
                    /\ claimed \in RemoteHashes
                    /\ computeHash(RemoteFile(claimed)) # claimed
                => /\ pass.state = "Failed"
                   /\ pass.error \in {"IntegrityError", "NetworkError"}
                   /\ pass.payload = Null
                   /\ UNCHANGED <<stores, remoteFiles, remotePtrs>>
            /\ pass.payload # Null
                => computeHash(pass.payload) = pass.remote.current_hash
            /\ pass.error = "IntegrityError"
                => /\ pass.state = "Failed"
                   /\ PointerGet(trifles', id) = pass.local
                   /\ \A r \in content' :
                        r.data # RemoteFile(pass.remote.current_hash)
                   /\ versions' = versions
            /\ sync[id].state = "Failed"
                => /\ pass.state = "Failed" \/ budget' < budget
                   /\ budget > 0 /\ PointerGet(trifles, id) # NoPtr
                        => ENABLED sync_fetch(id)]_vars

\* A pass failed with IntegrityError on a damaged payload, and so did the
\* pass that retried it.
C20_Witness ==
    \E id \in SyncIds :
        /\ sync[id].state = "Failed"
        /\ sync[id].error = "IntegrityError"
        /\ computeHash(RemoteFile(sync[id].remote.current_hash))
                # sync[id].remote.current_hash
        /\ budget <= MaxSyncOps - 2
        /\ PointerGet(trifles, id) = sync[id].local

\* C21: a pass that finds the remote record with the hash of the local
\* pointer ends Reconciled in its first step and writes nothing, locally or
\* remotely; and a pointer left Reconciled has that hash on both sides, so
\* the next pass is such a pass.
C21_ResyncNoOp ==
    [][\A id \in SyncIds :
        LET local == PointerGet(trifles, id)
            remote == PointerGet(remotePtrs, id)
        IN  /\ budget' < budget /\ remote # NoPtr
                    /\ remote.current_hash = local.current_hash
                => /\ sync'[id].state = "Reconciled"
                   /\ sync'[id].step = ""
                   /\ UNCHANGED <<stores, remoteFiles, remotePtrs>>
            /\ sync[id].state = "Reconciled"
                => /\ remote # NoPtr
                   /\ remote.current_hash = local.current_hash
                   /\ UNCHANGED <<stores, remoteFiles, remotePtrs>>]_vars

\* A pass pushed the edited trifle, and the pass after it found both sides
\* equal.
C21_Witness ==
    \E id \in SyncIds :
        /\ sync[id].state = "Reconciled"
        /\ sync[id].plan = ""
        /\ sync[id].remote = EditedTrifle
        /\ sync[id].local = EditedTrifle
        /\ remotePtrs = {EditedTrifle}
        /\ budget <= MaxSyncOps - 2

C23_MigrationIdempotent ==
    [][/\ remoteKeys \subseteq remoteKeys'
       /\ UNCHANGED stores
       /\ \A r \in remoteKeys' \ remoteKeys :
            /\ StartsWith(r.key, DomainPath(Email))
            /\ \E l \in KeysUnder(remoteKeys, LegacyPath(Email)) :
                r = [key |-> Rekey(l.key, Email), value |-> l.value]
       /\ budget' < budget /\ KeysUnder(remoteKeys, DomainPath(Email)) # {}
            => migration'.state = "Done" /\ migration'.todo = {}
       /\ migration.state = "Done"
            => migration'.state = "Done" /\ remoteKeys' = remoteKeys]_vars

\* A run copied one of the two legacy keys and failed, and the run that
\* retried it is done: the legacy keys are there, and so is the one copy.
C23_Witness ==
    /\ migration.state = "Done"
    /\ budget <= MaxMigrateOps - 2
    /\ LegacyKeys \subseteq remoteKeys
    /\ Cardinality(MigratedKeys \cap remoteKeys) = 1
    /\ Cardinality(KeysUnder(remoteKeys, DomainPath(Email))) = 1

\* No timer is pending and no save is running.
EditorQuiet ==
    /\ ~editor.saveTimeout
    /\ \A i \in SaveIds : saveTasks[i].pc = "idle"

\* C24: when nothing is pending any more (the debounce delay has passed
\* after the last change and every save has ended), the trifle's stored
\* hash for the current file is the hash of the editor's text and isDirty
\* is false.
C24_AutoSave ==
    EditorQuiet =>
        /\ StoredFileHash(editor.trifleId, editor.currentFile.path)
                = computeHash(editor.value)
        /\ ~editor.isDirty

\* C25: no cache holds a response for a URL whose path starts with /api/,
\* the worker answers no request to such a URL (neither from a cache nor
\* otherwise: they are left to the browser), and none is being answered.
C25_NoApiCache ==
    /\ \A name \in CacheNames : \A url \in swCaches[name] :
            ~StartsWith(url.pathname, "/api/")
    /\ StartsWith(swLast.url.pathname, "/api/") => swLast.source = "browser"
    /\ \A i \in FetchIds : ~StartsWith(swFetches[i].request.url.pathname, "/api/")

\* After the installation a page was answered from the network and cached,
\* and a GET to /api/ was left to the browser.
C25_Witness ==
    /\ STATIC_CACHE \subseteq swCaches[CACHE_NAME]
    /\ swCaches[CACHE_NAME] \ (STATIC_CACHE \cup CDN_CACHE) # {}
    /\ swLast.method = "GET"
    /\ StartsWith(swLast.url.pathname, "/api/")
    /\ swLast.source = "browser"

\* The trifles of the last load-files message that have a name.
Named(name) == {t \in loadMsg.available : t.name = name}

\* C26: an import made after a load-files message gives a trifle's code
\* exactly when one trifle of that message has the name and it is not the
\* current trifle, and the code is that trifle's; with several trifles of
\* the name it raises the 'Multiple trifles named' error, with the current
\* trifle alone the self-import error, with none the not-found error.
C26_ImportResolution ==
    importResult.name # "" =>
        LET name == importResult.name
            named == Named(name)
            one == CHOOSE t \in named : TRUE
        IN  /\ importResult.outcome = "code"
                <=> Cardinality(named) = 1 /\ one.id # loadMsg.trifleId
            /\ importResult.outcome = "code" => importResult.code = one.code
            /\ Cardinality(named) > 1 => importResult.error = MultipleError(name)
            /\ Cardinality(named) = 1 /\ one.id = loadMsg.trifleId
                => importResult.error = SelfImportError(name)
            /\ named = {} => importResult.error = NotFoundError(name)

\* C27: in a snippet, every line the user has submitted is in an
\* 'input-response' message on its way to the worker or has been returned
\* by input() to the program, in the order submitted.
C27_SnippetInput ==
    term.host = "snippet" =>
        term.submitted =
            pyRun.returned \o [i \in 1..Len(channels.toWorker) |->
                                channels.toWorker[i].value]

\* Nothing of the turtle program is left to run: it has ended, no update is
\* scheduled and no animation frame is outstanding.
TurtleQuiet ==
    /\ turtleRun.complete
    /\ ~frameManager._updateScheduled
    /\ animationFrames = <<>>

\* C28: with the tracer buffer left at 1 and no reset(), once nothing is
\* left to run every operation queued through addFrame has been executed,
\* exactly once and in the order queued.
C28_AllFramesExecuted ==
    (TurtleQuiet /\ ~turtleRun.tracerCalled /\ ~turtleRun.resetCalled) =>
        turtleRun.executed = turtleRun.queued

\* C29: the avatar never has more than MAX_SHAPES shapes.
C29_MaxShapes == Len(avatar.shapes) <= MAX_SHAPES

\* C30: a snippet run that reads a name it has not defined itself gets a
\* NameError: no name defined by an earlier run is visible to it.
C30_IsolatedNamespace ==
    (snipResult.code.reads # NoName /\ snipResult.code.reads \notin snipResult.code.defines) =>
        snipResult.value = NameError

\* The hash a trifle data blob has for a path ("" when it has none).
FileHashIn(data, path) ==
    LET files == Field(data.kv, "files").items
        hits == {i \in 1..Len(files) : Field(files[i].kv, "path") = Str(path)}
    IN  IF hits = {} THEN ""
        ELSE Field(files[CHOOSE i \in hits : TRUE].kv, "hash").s

\* C31: when a save ends, the trifle data it has stored has the hash of the
\* text it read under the path of the file that was current when it read
\* it, and for every other file the hash that was stored before.
C31_SaveToRightFile ==
    [][\A i \in SaveIds :
        (saveTasks[i].pc = "updateTrifle_put" /\ saveTasks'[i].pc = "idle") =>
            LET stored == getContent(saveTasks[i].ptr.current_hash)
            IN  /\ PointerGet(trifles', editor.trifleId).current_hash
                        = saveTasks[i].ptr.current_hash
                /\ FileHashIn(stored, saveTasks[i].path) = saveTasks[i].newHash
                /\ \A path \in FilePaths \ {saveTasks[i].path} :
                        FileHashIn(stored, path)
                            = StoredFileHash(editor.trifleId, path)]_vars

\* No operation that rewrites the trifle data is running.
RmwQuiet ==
    /\ \A i \in SaveIds : saveTasks[i].pc = "idle"
    /\ \A op \in RmwOps : editor.tasks[op].pc \in {"idle", "done"}

\* C32: once no operation is running, the stored trifle data has the change
\* of each operation that has completed: an entry for the file created
\* (unless it was deleted since), no entry for the file deleted, the new
\* title, and an entry for the file the program wrote (unless it was
\* deleted since).
C32_NoLostUpdate ==
    RmwQuiet =>
        LET stored == getContent(PointerGet(trifles, editor.trifleId).current_hash)
            Done(op) == editor.tasks[op].pc = "done"
            deleted == IF Done("deleteFile") THEN editor.tasks["deleteFile"].path ELSE ""
        IN  /\ (Done("createFile") /\ deleted # NewFilePath) =>
                    HasFile(stored, NewFilePath)
            /\ Done("deleteFile") => ~HasFile(stored, deleted)
            /\ Done("saveTitle") => Field(stored.kv, "name") = Str(NewTitle)
            /\ (Done("syncFiles") /\ deleted # WorkerFile.path) =>
                    HasFile(stored, WorkerFile.path)

\* C33: the worker never has two executions in progress, isRunning is true
\* exactly while an execution is in progress, and a 'run' handled while one
\* is in progress was answered with 'Code is already running'.
C33_SingleExecution ==
    /\ Cardinality(InProgress(pyWorker)) <= 1
    /\ pyWorker.isRunning <=> InProgress(pyWorker) # {}

\* C34: every message of a run is handled by the snippet that started the
\* run.
C34_RoutedToStarter ==
    snipPage.handled.type # "" => snipPage.handled.by = snipPage.handled.from

\* C35: every snippet that has started a run becomes idle again.
C35_EventuallyIdle ==
    \A snippet \in Snippets :
        (snippet \in snipPage.isRunning) ~> (snippet \notin snipPage.isRunning)

\* C36: while the worker executes a run of the editor page, isRunning of
\* the page is true; and workerReady is true only when the page has a
\* worker whose runtime is loaded.
C36_RunFlagAgrees ==
    /\ InProgress(pyWorker) # {} => runPage.isRunning
    /\ runPage.workerReady => (runPage.worker # 0 /\ pyWorker.pyodide)

\* The pointer of id has been deleted: generateId has handed the id out, no
\* createTrifle is still on its way to add it, and no pointer has it.
Deleted(id) ==
    /\ \E i \in 1..nTrifleIds : TrifleIdPool[i] = id
    /\ \A p \in Procs : ~(loc[p].op = "createTrifle" /\ loc[p].id = id)
    /\ PointerGet(trifles, id) = NoPtr

\* C37: a deleted pointer stays deleted: no step puts a pointer back under
\* the id of a deleted one.
C37_StaysDeleted ==
    [][\A id \in TrifleIds : Deleted(id) => PointerGet(trifles', id) = NoPtr]_vars

====
